---- MODULE Spec2Model ----
\* Reconciliation QA of rdm-datalab-pipelines: qa/abs_reconciliation.py,
\* qa/qcew_reconciliation.py and qa/utils.py as a state machine.  A behaviour
\* is one call of one entry point: the inputs are drawn in the initial state
\* (pc = "start") and the entry point's action computes the whole result
\* (pc = "done").
EXTENDS Integers, Naturals, Sequences, FiniteSets, TLC

VARIABLES
    prog,                 \* entry point of this run
    pc,                   \* "start" before the call, "done" after it
    census_df,            \* reconcile_abs: Census side (rows of fetch_census_data)
    rdm_df,               \* reconcile_abs / reconcile_qcew: RDM side
    source_df,            \* reconcile_qcew: raw QCEW source rows (text cells)
    allow_wage_tolerance, \* reconcile_qcew flag
    responses,            \* fetch_census_data: what _fetch_census_slice meets per slice
    payload,              \* parse_census_payload: the text handed in
    args,                 \* the arguments of the other entry points (a record)
    fs,                   \* the file system: path -> file content
    trace,                \* the calls and writes made so far, in order
    result                \* what the call returned or raised

vars == <<prog, pc, census_df, rdm_df, source_df, allow_wage_tolerance,
          responses, payload, args, fs, trace, result>>

-----------------------------------------------------------------------------
\* Bounds

\* number of distinct (year_num, state_cnty_fips_cd, naics2_sector_cd) keys
NumKeys == 2

Keys == 1..NumKeys

-----------------------------------------------------------------------------
\* float cells: NaN (None / missing after pd.to_numeric) or an exact rational

NaN == [isna |-> TRUE, n |-> 0, d |-> 1]

RECURSIVE GCD(_, _)
GCD(a, b) == IF b = 0 THEN a ELSE GCD(b, a % b)

AbsInt(x) == IF x < 0 THEN -x ELSE x

\* the number n/d (d # 0), in lowest terms with a positive denominator
Rat(n, d) ==
    LET g == GCD(AbsInt(n), AbsInt(d))
        s == IF d < 0 THEN -1 ELSE 1
    IN  [isna |-> FALSE, n |-> (s * n) \div g, d |-> (s * d) \div g]

Num(x) == [isna |-> FALSE, n |-> x, d |-> 1]

\* pd.isna
isna(c) == c.isna

\* float subtraction; NaN propagates
Minus(a, b) ==
    IF a.isna \/ b.isna THEN NaN ELSE Rat(a.n * b.d - b.n * a.d, a.d * b.d)

\* float multiplication and division (the callers guard the zero divisor)
Times(a, b) ==
    IF a.isna \/ b.isna THEN NaN ELSE Rat(a.n * b.n, a.d * b.d)

Over(a, b) ==
    IF a.isna \/ b.isna \/ b.n = 0 THEN NaN ELSE Rat(a.n * b.d, a.d * b.n)

IsZero(c) == ~c.isna /\ c.n = 0

\* abs(c) <= tol for a whole number tol; a comparison with NaN is False
AbsLeq(c, tol) == ~c.isna /\ AbsInt(c.n) <= tol * c.d

\* c > 0; a comparison with NaN is False
Positive(c) == ~c.isna /\ c.n > 0

-----------------------------------------------------------------------------
\* qa/utils.py

safe_divide(numerator, denominator) ==
    IF numerator.isna \/ denominator.isna \/ denominator.n = 0
    THEN NaN
    ELSE Over(numerator, denominator)

-----------------------------------------------------------------------------
\* DataFrame.merge(how="outer", on=key): the keys in sorted order; under one
\* key every left row paired with every right row, an unmatched row paired
\* with NoRow

NoRow == [key |-> 0]

RowsOf(df, k) == SelectSeq(df, LAMBDA r: r.key = k)

RECURSIVE PairEach(_, _)
PairEach(l, rs) ==
    IF rs = <<>> THEN <<>>
    ELSE <<[l |-> l, r |-> Head(rs)]>> \o PairEach(l, Tail(rs))

RECURSIVE Cross(_, _)
Cross(ls, rs) ==
    IF ls = <<>> THEN <<>> ELSE PairEach(Head(ls), rs) \o Cross(Tail(ls), rs)

RECURSIVE LeftOnly(_)
LeftOnly(ls) ==
    IF ls = <<>> THEN <<>>
    ELSE <<[l |-> Head(ls), r |-> NoRow]>> \o LeftOnly(Tail(ls))

RECURSIVE RightOnly(_)
RightOnly(rs) ==
    IF rs = <<>> THEN <<>>
    ELSE <<[l |-> NoRow, r |-> Head(rs)]>> \o RightOnly(Tail(rs))

RECURSIVE MergeFrom(_, _, _)
MergeFrom(k, left, right) ==
    IF k > NumKeys THEN <<>>
    ELSE LET ls == RowsOf(left, k)
             rs == RowsOf(right, k)
             here == IF ls # <<>> /\ rs # <<>> THEN Cross(ls, rs)
                     ELSE IF ls # <<>> THEN LeftOnly(ls)
                     ELSE RightOnly(rs)
         IN  here \o MergeFrom(k + 1, left, right)

MergeOuter(left, right) == MergeFrom(1, left, right)

\* a notes cell of a merged frame: a ";"-joined list of flags, or NaN where
\* the row has no left side
NotesNaN == [isna |-> TRUE, flags |-> <<>>]

Notes(flags) == [isna |-> FALSE, flags |-> flags]

Has(flags, f) == \E i \in 1..Len(flags) : flags[i] = f

-----------------------------------------------------------------------------
\* qa/abs_reconciliation.py: reconcile_abs

\* payroll and receipts slack in USD
AbsTolUsd == 1000

\* variant: the dollar slack applied to a count
abs_pass_exact_slack(delta, left, right) ==
    IF isna(left) \/ isna(right) THEN FALSE ELSE AbsLeq(delta, AbsTolUsd)

abs_pass_exact(delta, left, right) ==
    IF isna(left) \/ isna(right) THEN FALSE ELSE IsZero(delta)

\* variant: a strict comparison with the slack
abs_pass_tol_strict(delta, left, right, tol) ==
    IF isna(left) \/ isna(right) THEN FALSE
    ELSE ~delta.isna /\ AbsInt(delta.n) < tol * delta.d

\* variant: a relative slack of half a percent of the source value
abs_pass_tol_pct(delta, left, right, tol) ==
    IF isna(left) \/ isna(right) THEN FALSE
    ELSE AbsInt(delta.n) * right.d * 200 <= AbsInt(right.n) * delta.d

abs_pass_tol(delta, left, right, tol) ==
    IF isna(left) \/ isna(right) THEN FALSE ELSE AbsLeq(delta, tol)

\* variant: the Census side tested before the both-sides case
abs_notes_census_first(row_notes, src_firm, rdm_firm) ==
    LET base == IF row_notes.isna THEN <<>> ELSE row_notes.flags
    IN  IF isna(src_firm) THEN Append(base, "missing_from_census")
        ELSE IF isna(rdm_firm) THEN Append(base, "missing_from_rdm")
        ELSE base

\* the notes loop of reconcile_abs
abs_notes(row_notes, src_firm, rdm_firm) ==
    LET base == IF row_notes.isna THEN <<>> ELSE row_notes.flags
    IN  IF isna(src_firm) /\ isna(rdm_firm) THEN Append(base, "missing_from_both")
        ELSE IF isna(src_firm) THEN Append(base, "missing_from_census")
        ELSE IF isna(rdm_firm) THEN Append(base, "missing_from_rdm")
        ELSE base

\* one row of the merged frame with its computed columns
AbsRow(m) ==
    LET hasL == m.l.key # 0
        hasR == m.r.key # 0
        sf == IF hasL THEN m.l.firm ELSE NaN
        se == IF hasL THEN m.l.emp ELSE NaN
        sp == IF hasL THEN m.l.pay ELSE NaN
        sr == IF hasL THEN m.l.rcpt ELSE NaN
        nt == IF hasL THEN m.l.notes ELSE NotesNaN
        rf == IF hasR THEN m.r.firm ELSE NaN
        re == IF hasR THEN m.r.emp ELSE NaN
        rp == IF hasR THEN m.r.pay ELSE NaN
        rr == IF hasR THEN m.r.rcpt ELSE NaN
        df == Minus(rf, sf)
        de == Minus(re, se)
        dp == Minus(rp, sp)
        dr == Minus(rr, sr)
        pf == abs_pass_exact(df, rf, sf)
        pe == abs_pass_exact(de, re, se)
        pp == abs_pass_tol(dp, rp, sp, AbsTolUsd)
        pr == abs_pass_tol(dr, rr, sr, AbsTolUsd)
    IN  [key |-> IF hasL THEN m.l.key ELSE m.r.key,
         source_census_firmpdemp |-> sf,
         source_census_emp |-> se,
         source_census_payann_usd |-> sp,
         source_census_rcppdemp_usd |-> sr,
         rdm_abs_firms |-> rf,
         rdm_abs_emp |-> re,
         rdm_abs_payroll_usd_amt |-> rp,
         rdm_abs_rcpt_usd_amt |-> rr,
         delta_firms |-> df,
         delta_emp |-> de,
         delta_payroll_usd |-> dp,
         delta_receipts_usd |-> dr,
         delta_firms_pct |-> safe_divide(df, sf),
         delta_emp_pct |-> safe_divide(de, se),
         delta_payroll_pct |-> safe_divide(dp, sp),
         delta_receipts_pct |-> safe_divide(dr, sr),
         pass_firms |-> pf,
         pass_emp |-> pe,
         pass_payroll |-> pp,
         pass_receipts |-> pr,
         pass_all |-> (pf /\ pe /\ pp /\ pr),
         notes |-> abs_notes(nt, sf, rf)]

\* reconcile_abs(census_df, rdm_df).  A census frame built from no rows has
\* no columns, so the merge on the key columns raises KeyError.
reconcile_abs(census, rdm) ==
    IF census = <<>>
    THEN [status |-> "KeyError", rows |-> <<>>]
    ELSE LET merged == MergeOuter(census, rdm)
         IN  [status |-> "ok",
              rows |-> [i \in 1..Len(merged) |-> AbsRow(merged[i])]]

-----------------------------------------------------------------------------
\* raw cells: what a CSV cell or a JSON value holds before _parse_numeric.
\* Text is a sequence of one-character strings over Chars.

Digits == <<"0", "1", "2", "3", "4", "5", "6", "7", "8", "9">>

NoneCell == [t |-> "none", s |-> <<>>, v |-> 0]

NanCell == [t |-> "nan", s |-> <<>>, v |-> 0]

Str(s) == [t |-> "str", s |-> s, v |-> 0]

IntCell(v) == [t |-> "num", s |-> <<>>, v |-> v]

IsDigit(c) == \E i \in 1..10 : Digits[i] = c

DigitVal(c) == (CHOOSE i \in 1..10 : Digits[i] = c) - 1

\* str(int) for a non-negative int
RECURSIVE NatToText(_)
NatToText(v) ==
    IF v < 10 THEN <<Digits[v + 1]>>
    ELSE Append(NatToText(v \div 10), Digits[(v % 10) + 1])

\* str(value)
ToText(cell) ==
    IF cell.t = "str" THEN cell.s
    ELSE IF cell.t = "nan" THEN <<"n", "a", "n">>
    ELSE IF cell.v < 0 THEN <<"-">> \o NatToText(-cell.v)
    ELSE NatToText(cell.v)

\* str.strip(): the whitespace characters of the sample texts
Whitespace == {" ", "\t", "\n", "\r"}

RECURSIVE LStrip(_)
LStrip(s) == IF s # <<>> /\ Head(s) \in Whitespace THEN LStrip(Tail(s)) ELSE s

RECURSIVE RStrip(_)
RStrip(s) ==
    IF s # <<>> /\ s[Len(s)] \in Whitespace
    THEN RStrip(SubSeq(s, 1, Len(s) - 1)) ELSE s

Strip(s) == RStrip(LStrip(s))

SUPPRESSED_VALUES ==
    { <<>>, <<"D">>, <<"N">>, <<"S">>, <<"N", "A">>, <<"N", "/", "A">>,
      <<"(", "D", ")">>, <<"(", "N", ")">>, <<"(", "S", ")">> }

RECURSIVE DigitsValue(_, _)
DigitsValue(s, acc) ==
    IF s = <<>> THEN acc ELSE DigitsValue(Tail(s), acc * 10 + DigitVal(Head(s)))

AllDigits(s) == s # <<>> /\ \A i \in 1..Len(s) : IsDigit(s[i])

Unsigned(s) == IF s # <<>> /\ Head(s) \in {"+", "-"} THEN Tail(s) ELSE s

IsNanText(s) ==
    /\ Len(s) = 3
    /\ s[1] \in {"n", "N"} /\ s[2] \in {"a", "A"} /\ s[3] \in {"n", "N"}

\* float(text) on stripped text over Chars: a signed run of digits, or nan in
\* any letter case; everything else raises ValueError
FloatOf(text) ==
    LET body == Unsigned(text)
        neg == text # <<>> /\ Head(text) = "-"
    IN  IF AllDigits(body)
        THEN [ok |-> TRUE,
              val |-> Num(IF neg THEN -DigitsValue(body, 0) ELSE DigitsValue(body, 0))]
        ELSE IF IsNanText(body) THEN [ok |-> TRUE, val |-> NaN]
        ELSE [ok |-> FALSE, val |-> NaN]

\* _parse_numeric: the parsed value and the note ("" where the code gives None).
\* isnone tells None from a float NaN.
parse_numeric(value) ==
    IF value.t = "none"
    THEN [val |-> NaN, isnone |-> TRUE, note |-> "source_missing"]
    ELSE LET text == Strip(ToText(value))
             f == FloatOf(text)
         IN  IF text \in SUPPRESSED_VALUES
             THEN [val |-> NaN, isnone |-> TRUE, note |-> "source_suppressed"]
             ELSE IF f.ok
             THEN [val |-> f.val, isnone |-> FALSE, note |-> ""]
             ELSE [val |-> NaN, isnone |-> TRUE, note |-> "source_non_numeric"]

\* ";".join(sorted(set(notes))): the notes of the model in sorted order
NoteOrder ==
    <<"census_empty_response", "census_http_error", "census_json_error",
      "source_missing", "source_non_numeric", "source_suppressed">>

SortedNotes(noteset) == SelectSeq(NoteOrder, LAMBDA x: x \in noteset)

-----------------------------------------------------------------------------
\* qa/qcew_reconciliation.py: reconcile_qcew

\* avg weekly wage slack in USD
QcewTolUsd == 1

WeeksPerYear == 52

\* Optional[bool]
PyBool(b) == IF b THEN "True" ELSE "False"

\* variant: an absent side fails instead of giving None
qcew_pass_exact_false(delta, left, right) ==
    IF isna(left) \/ isna(right) THEN "False" ELSE PyBool(IsZero(delta))

qcew_pass_exact(delta, left, right) ==
    IF isna(left) \/ isna(right) THEN "None" ELSE PyBool(IsZero(delta))

\* variant: a strict comparison with the slack
qcew_pass_tol_strict(delta, left, right, tol) ==
    IF isna(left) \/ isna(right) THEN "None"
    ELSE PyBool(~delta.isna /\ AbsInt(delta.n) < tol * delta.d)

qcew_pass_tol(delta, left, right, tol) ==
    IF isna(left) \/ isna(right) THEN "None" ELSE PyBool(AbsLeq(delta, tol))

\* the source loop of reconcile_qcew: one parsed source row
source_clean_row(row) ==
    LET emp == parse_numeric(row.annual_avg_emplvl)
        wages == parse_numeric(row.total_annual_wages)
        avg == parse_numeric(row.annual_avg_wkly_wage)
    IN  [key |-> row.key,
         emp |-> emp.val,
         wages |-> wages.val,
         avg_wage |-> avg.val,
         notes |-> Notes(SortedNotes({emp.note, wages.note, avg.note} \ {""}))]

\* pass_all and the note flag of one merged row
qcew_pass_all(src_emp, rdm_emp, pass_emp, pass_wages) ==
    IF isna(src_emp) /\ isna(rdm_emp) THEN "None"
    ELSE IF isna(src_emp) THEN "None"
    ELSE IF isna(rdm_emp) THEN "False"
    ELSE IF pass_emp = "True" /\ pass_wages = "True" THEN "True"
    ELSE IF pass_emp = "None" \/ pass_wages = "None" THEN "None"
    ELSE "False"

qcew_flag(src_emp, rdm_emp) ==
    IF isna(src_emp) /\ isna(rdm_emp) THEN <<"missing_from_both">>
    ELSE IF isna(src_emp) THEN <<"missing_from_source">>
    ELSE IF isna(rdm_emp) THEN <<"missing_from_rdm">>
    ELSE <<>>

QcewRow(m, tolerant) ==
    LET hasL == m.l.key # 0
        hasR == m.r.key # 0
        se == IF hasL THEN m.l.emp ELSE NaN
        sw == IF hasL THEN m.l.wages ELSE NaN
        sa == IF hasL THEN m.l.avg_wage ELSE NaN
        nt == IF hasL THEN m.l.notes ELSE NotesNaN
        re == IF hasR THEN m.r.emp ELSE NaN
        rw == IF hasR THEN m.r.wages ELSE NaN
        ra0 == IF hasR THEN m.r.avg_wage ELSE NaN
        fallback_wage == IF Positive(re) THEN Over(rw, Times(re, Num(WeeksPerYear)))
                         ELSE NaN
        ra == IF ~isna(ra0) THEN ra0 ELSE fallback_wage
        de == Minus(re, se)
        dw == Minus(rw, sw)
        da == Minus(ra, sa)
        pe == qcew_pass_exact(de, re, se)
        pw == qcew_pass_exact(dw, rw, sw)
        pa == IF tolerant THEN qcew_pass_tol(da, ra, sa, QcewTolUsd)
              ELSE qcew_pass_exact(da, ra, sa)
    IN  [key |-> IF hasL THEN m.l.key ELSE m.r.key,
         source_qcew_annual_avg_emplvl |-> se,
         source_qcew_total_annual_wages_usd |-> sw,
         source_qcew_avg_weekly_wage_usd |-> sa,
         rdm_qcew_emp |-> re,
         rdm_qcew_wages_usd |-> rw,
         rdm_qcew_avg_weekly_wage_usd |-> ra,
         delta_emp |-> de,
         delta_wages_usd |-> dw,
         delta_avg_weekly_wage_usd |-> da,
         delta_emp_pct |-> safe_divide(de, se),
         delta_wages_pct |-> safe_divide(dw, sw),
         delta_avg_weekly_wage_pct |-> safe_divide(da, sa),
         pass_emp |-> pe,
         pass_wages |-> pw,
         pass_avg_weekly_wage |-> pa,
         pass_all |-> qcew_pass_all(se, re, pe, pw),
         notes_in |-> nt,  \* the merged notes cell, before the loop rewrites it
         notes |-> (IF nt.isna THEN <<>> ELSE nt.flags) \o qcew_flag(se, re)]

\* reconcile_qcew(source_df, rdm_df, allow_wage_tolerance).  No source row
\* leaves source_clean without columns and the merge raises KeyError; a merged
\* row without a source side has a NaN notes cell, which the notes loop puts
\* into the list it joins, and str.join raises TypeError.
reconcile_qcew(source, rdm, tolerant) ==
    IF source = <<>>
    THEN [status |-> "KeyError", rows |-> <<>>]
    ELSE LET source_clean == [i \in 1..Len(source) |-> source_clean_row(source[i])]
             merged == MergeOuter(source_clean, rdm)
             rows == [i \in 1..Len(merged) |-> QcewRow(merged[i], tolerant)]
         IN  IF \E i \in 1..Len(rows) : rows[i].notes_in.isna
             THEN [status |-> "TypeError", rows |-> <<>>]
             ELSE [status |-> "ok", rows |-> rows]

-----------------------------------------------------------------------------
\* json.loads on a payload given as its sequence of JSON tokens: the
\* punctuation "[", "]", "{", "}", ",", ":", the literals and "junk" for any
\* text that is no JSON token.  A JSON string is its sequence of characters.

Tok(k) == [k |-> k, s |-> <<>>, v |-> 0]

TStr(s) == [k |-> "str", s |-> s, v |-> 0]

TNum(v) == [k |-> "num", s |-> <<>>, v |-> v]

\* JSON values
JScalar(t, s, v) == [t |-> t, s |-> s, v |-> v, items |-> <<>>]

JArr(items) == [t |-> "arr", s |-> <<>>, v |-> 0, items |-> items]

JObj(members) == [t |-> "obj", s |-> <<>>, v |-> 0, items |-> members]

JFail == [ok |-> FALSE, val |-> JScalar("null", <<>>, 0), next |-> 0]

JOk(val, next) == [ok |-> TRUE, val |-> val, next |-> next]

KindAt(toks, i) == IF i <= Len(toks) THEN toks[i].k ELSE "eof"

\* dict insertion: a repeated key keeps its place and takes the new value
PutPair(pairs, k, v) ==
    IF \E i \in 1..Len(pairs) : pairs[i].k = k
    THEN [i \in 1..Len(pairs) |->
            IF pairs[i].k = k THEN [k |-> k, val |-> v] ELSE pairs[i]]
    ELSE Append(pairs, [k |-> k, val |-> v])

RECURSIVE ParseValue(_, _), ParseElems(_, _, _), ParseMembers(_, _, _)
ParseValue(toks, i) ==
    LET k == KindAt(toks, i)
    IN  IF k = "str" THEN JOk(JScalar("str", toks[i].s, 0), i + 1)
        ELSE IF k = "num" THEN JOk(JScalar("num", <<>>, toks[i].v), i + 1)
        ELSE IF k = "true" THEN JOk(JScalar("bool", <<>>, 1), i + 1)
        ELSE IF k = "false" THEN JOk(JScalar("bool", <<>>, 0), i + 1)
        ELSE IF k = "null" THEN JOk(JScalar("null", <<>>, 0), i + 1)
        ELSE IF k = "["
        THEN IF KindAt(toks, i + 1) = "]" THEN JOk(JArr(<<>>), i + 2)
             ELSE ParseElems(toks, i + 1, <<>>)
        ELSE IF k = "{"
        THEN IF KindAt(toks, i + 1) = "}" THEN JOk(JObj(<<>>), i + 2)
             ELSE ParseMembers(toks, i + 1, <<>>)
        ELSE JFail

ParseElems(toks, i, acc) ==
    LET e == ParseValue(toks, i)
    IN  IF ~e.ok THEN JFail
        ELSE IF KindAt(toks, e.next) = ","
        THEN ParseElems(toks, e.next + 1, Append(acc, e.val))
        ELSE IF KindAt(toks, e.next) = "]"
        THEN JOk(JArr(Append(acc, e.val)), e.next + 1)
        ELSE JFail

ParseMembers(toks, i, acc) ==
    IF KindAt(toks, i) # "str" \/ KindAt(toks, i + 1) # ":" THEN JFail
    ELSE LET e == ParseValue(toks, i + 2)
             key == JScalar("str", toks[i].s, 0)
         IN  IF ~e.ok THEN JFail
             ELSE IF KindAt(toks, e.next) = ","
             THEN ParseMembers(toks, e.next + 1, PutPair(acc, key, e.val))
             ELSE IF KindAt(toks, e.next) = "}"
             THEN JOk(JObj(PutPair(acc, key, e.val)), e.next + 1)
             ELSE JFail

\* json.loads: one value and nothing after it, else JSONDecodeError
json_loads(toks) ==
    LET r == ParseValue(toks, 1)
    IN  IF r.ok /\ r.next = Len(toks) + 1 THEN r ELSE JFail

\* Python truth value, len(), iteration and hashability of a JSON value
Truthy(j) ==
    IF j.t = "null" THEN FALSE
    ELSE IF j.t \in {"bool", "num"} THEN j.v # 0
    ELSE IF j.t = "str" THEN j.s # <<>>
    ELSE j.items # <<>>

HasLen(j) == j.t \in {"str", "arr", "obj"}

PyLen(j) == IF j.t = "str" THEN Len(j.s) ELSE Len(j.items)

Iterable(j) == j.t \in {"str", "arr", "obj"}

\* iterating a str gives its characters, a dict its keys
Iter(j) ==
    IF j.t = "str" THEN [i \in 1..Len(j.s) |-> JScalar("str", <<j.s[i]>>, 0)]
    ELSE IF j.t = "obj" THEN [i \in 1..Len(j.items) |-> j.items[i].k]
    ELSE j.items

Hashable(j) == j.t \notin {"arr", "obj"}

Min(a, b) == IF a < b THEN a ELSE b

RECURSIVE ZipDict(_, _, _, _)
ZipDict(hs, rs, i, acc) ==
    IF i > Min(Len(hs), Len(rs)) THEN acc
    ELSE ZipDict(hs, rs, i + 1, PutPair(acc, hs[i], rs[i]))

-----------------------------------------------------------------------------
\* qa/abs_reconciliation.py: parse_census_payload, fetch_census_data

\* a dict returned to fetch_census_data: the zipped header/value pairs, and
\* the "notes" entry the program itself puts in ("" when there is none)
Record(notes, pairs) == [status |-> "ok", notes |-> notes, pairs |-> pairs]

Raised(exc) == [status |-> exc, notes |-> "", pairs |-> <<>>]

parse_census_payload(toks) ==
    LET r == json_loads(toks)
        data == r.val
    IN  IF ~r.ok THEN Record("census_json_error", <<>>)
        ELSE IF ~Truthy(data) THEN Record("census_empty_response", <<>>)
        ELSE IF ~HasLen(data) THEN Raised("TypeError")
        ELSE IF PyLen(data) < 2 THEN Record("census_empty_response", <<>>)
        ELSE IF data.t = "obj" THEN Raised("KeyError")
        ELSE LET header == Iter(data)[1]
                 row == Iter(data)[2]
             IN  IF ~Iterable(header) \/ ~Iterable(row) THEN Raised("TypeError")
                 ELSE LET hs == Iter(header)
                          rs == Iter(row)
                          n == Min(Len(hs), Len(rs))
                      IN  IF \E i \in 1..n : ~Hashable(hs[i])
                          THEN Raised("TypeError")
                          ELSE Record("", ZipDict(hs, rs, 1, <<>>))

\* _fetch_census_slice: an HTTP failure becomes a notes record
fetch_census_slice(resp) ==
    IF resp.http_error THEN Record("census_http_error", <<>>)
    ELSE parse_census_payload(resp.payload)

FIRMPDEMP == <<"F", "I", "R", "M", "P", "D", "E", "M", "P">>

EMP == <<"E", "M", "P">>

PAYANN == <<"P", "A", "Y", "A", "N", "N">>

RCPPDEMP == <<"R", "C", "P", "P", "D", "E", "M", "P">>

\* the raw cell of a JSON value handed to _parse_numeric (str(value) of a
\* bool, list or dict is never a number: the text "x" stands for it)
CellOf(j) ==
    IF j.t = "null" THEN NoneCell
    ELSE IF j.t = "str" THEN Str(j.s)
    ELSE IF j.t = "num" THEN IntCell(j.v)
    ELSE Str(<<"x">>)

\* record.get(name)
RecordGet(rec, name) ==
    LET key == JScalar("str", name, 0)
    IN  IF \E i \in 1..Len(rec.pairs) : rec.pairs[i].k = key
        THEN CellOf(rec.pairs[CHOOSE i \in 1..Len(rec.pairs) : rec.pairs[i].k = key].val)
        ELSE NoneCell

UsdPerThousand == 1000

\* variant: the amount left in thousands
ScaleUsd_unscaled(p) == IF p.isnone THEN NaN ELSE p.val

\* payann * 1000 if payann is not None else None
ScaleUsd(p) == IF p.isnone THEN NaN ELSE Times(p.val, Num(UsdPerThousand))

\* the body of the loop of fetch_census_data: the row of one slice
census_row(key, record) ==
    LET firm == parse_numeric(RecordGet(record, FIRMPDEMP))
        emp == parse_numeric(RecordGet(record, EMP))
        payann == parse_numeric(RecordGet(record, PAYANN))
        rcpt == parse_numeric(RecordGet(record, RCPPDEMP))
        notes == {record.notes, firm.note, emp.note, payann.note, rcpt.note} \ {""}
    IN  [key |-> key,
         firm |-> firm.val,
         emp |-> emp.val,
         pay |-> ScaleUsd(payann),
         rcpt |-> ScaleUsd(rcpt),
         notes |-> Notes(SortedNotes(notes))]

\* fetch_census_data: one row per slice, in order; an exception of
\* parse_census_payload is not caught and ends the call
fetch_census_data(resps) ==
    LET records == [i \in 1..Len(resps) |-> fetch_census_slice(resps[i])]
    IN  IF \E i \in 1..Len(resps) : records[i].status # "ok"
        THEN [status |-> records[CHOOSE i \in 1..Len(resps) :
                                   /\ records[i].status # "ok"
                                   /\ \A j \in 1..(i - 1) : records[j].status = "ok"].status,
              rows |-> <<>>]
        ELSE [status |-> "ok",
              rows |-> [i \in 1..Len(resps) |-> census_row(i, records[i])]]

-----------------------------------------------------------------------------
\* Inputs.  A frame holds no row, one row drawn from the full product of the
\* sample values, or two rows drawn from a narrower product.

UpToOne(S) == {<<>>} \cup {<<r>> : r \in S}

Pairs(S) == {<<a, b>> : a \in S, b \in S}

\* reconcile_abs: Census rows as fetch_census_data leaves them (a note only
\* where a value is missing) and RDM rows after pd.to_numeric
NotesFor(firm, emp, pay, rcpt) ==
    IF firm.isna \/ emp.isna \/ pay.isna \/ rcpt.isna
    THEN {Notes(<<>>), Notes(<<"source_suppressed">>)}
    ELSE {Notes(<<>>)}

AbsCensusRowsOver(F, E, P, R) ==
    UNION { { [key |-> k, firm |-> f, emp |-> e, pay |-> p, rcpt |-> r, notes |-> n] :
              n \in NotesFor(f, e, p, r) } :
            k \in Keys, f \in F, e \in E, p \in P, r \in R }

AbsCensusRows ==
    AbsCensusRowsOver({NaN, Num(0), Num(10)}, {NaN, Num(100)},
                      {NaN, Num(200000)}, {NaN, Num(300000)})

AbsRdmRows ==
    [key : Keys,
     firm : {NaN, Num(0), Num(10)},
     emp : {NaN, Num(100), Num(101)},
     pay : {NaN, Num(198999), Num(199000), Num(200000), Num(201000), Num(201001)},
     rcpt : {NaN, Num(298999), Num(299000), Num(301000), Num(301001)}]

AbsCensusNarrow ==
    AbsCensusRowsOver({Num(10)}, {Num(100)}, {Num(100000), Num(200000)}, {Num(300000)})

AbsRdmNarrow ==
    [key : Keys, firm : {Num(10)}, emp : {Num(100)},
     pay : {Num(101000), Num(201000), Num(202000)}, rcpt : {Num(300000)}]

AbsInputs ==
    (UpToOne(AbsCensusRows) \X UpToOne(AbsRdmRows))
        \cup (Pairs(AbsCensusNarrow) \X Pairs(AbsRdmNarrow))

\* reconcile_qcew: source rows with text cells as read with dtype=str (an
\* empty CSV cell is a float NaN, a column that is not there gives None)
QcewSourceRows ==
    [key : Keys,
     annual_avg_emplvl :
        {NoneCell, NanCell, Str(<<"D">>), Str(<<"1", ",", "0">>), Str(<<"1">>), Str(<<"2">>)},
     total_annual_wages :
        {NoneCell, Str(<<"(", "D", ")">>), Str(<<"5", "2">>), Str(<<"1", "0", "4">>)},
     annual_avg_wkly_wage :
        {NanCell, Str(<<"N", "/", "A">>), Str(<<" ", "1", " ">>), Str(<<"2">>)}]

QcewRdmRows ==
    [key : Keys,
     emp : {NaN, Num(0), Num(1), Num(2)},
     wages : {NaN, Num(52), Num(104), Num(105)},
     avg_wage : {NaN, Num(1), Num(2), Num(3)}]

QcewSourceNarrow ==
    [key : Keys, annual_avg_emplvl : {Str(<<"1">>)}, total_annual_wages : {Str(<<"5", "2">>)},
     annual_avg_wkly_wage : {Str(<<"1">>), Str(<<"2">>)}]

QcewRdmNarrow ==
    [key : Keys, emp : {Num(1)}, wages : {Num(52)}, avg_wage : {NaN, Num(2), Num(3)}]

QcewInputs ==
    (UpToOne(QcewSourceRows) \X UpToOne(QcewRdmRows))
        \cup (Pairs(QcewSourceNarrow) \X Pairs(QcewRdmNarrow))

NoResult == [status |-> "none", rows |-> <<>>]

InitAbs ==
    /\ prog = "reconcile_abs"
    /\ \E in \in AbsInputs : census_df = in[1] /\ rdm_df = in[2]
    /\ source_df = <<>>
    /\ allow_wage_tolerance = FALSE

InitQcew ==
    /\ prog = "reconcile_qcew"
    /\ \E in \in QcewInputs : source_df = in[1] /\ rdm_df = in[2]
    /\ census_df = <<>>
    /\ allow_wage_tolerance \in BOOLEAN

\* no arguments, no files and no calls where the entry point has none
NoArgs == <<>>

NoFiles == <<>>

Init ==
    /\ pc = "start"
    /\ result = NoResult
    /\ responses = <<>>
    /\ payload = <<>>
    /\ args = NoArgs
    /\ fs = NoFiles
    /\ trace = <<>>
    /\ (InitAbs \/ InitQcew)

\* run / main of qa.abs_reconciliation: the reconciliation call
ReconcileAbs ==
    /\ prog = "reconcile_abs"
    /\ pc = "start"
    /\ result' = reconcile_abs(census_df, rdm_df)
    /\ pc' = "done"
    /\ UNCHANGED <<prog, census_df, rdm_df, source_df, allow_wage_tolerance,
                   responses, payload, args, fs, trace>>

\* run / main of qa.qcew_reconciliation: the reconciliation call
ReconcileQcew ==
    /\ prog = "reconcile_qcew"
    /\ pc = "start"
    /\ result' = reconcile_qcew(source_df, rdm_df, allow_wage_tolerance)
    /\ pc' = "done"
    /\ UNCHANGED <<prog, census_df, rdm_df, source_df, allow_wage_tolerance,
                   responses, payload, args, fs, trace>>

Next == ReconcileAbs \/ ReconcileQcew

Spec == Init /\ [][Next]_vars

-----------------------------------------------------------------------------
\* Census API responses

LB == Tok("[")

RB == Tok("]")

COMMA == Tok(",")

\* the tokens of a JSON array of the given element token sequences
ArrayOf(elems) ==
    LET RECURSIVE Join(_)
        Join(es) == IF es = <<>> THEN <<>>
                    ELSE IF Len(es) = 1 THEN Head(es)
                    ELSE Head(es) \o <<COMMA>> \o Join(Tail(es))
    IN  <<LB>> \o Join(elems) \o <<RB>>

StrRow(names) == ArrayOf([i \in 1..Len(names) |-> <<TStr(names[i])>>])

TokRow(toks) == ArrayOf([i \in 1..Len(toks) |-> <<toks[i]>>])

CENSUS_HEADER == <<FIRMPDEMP, EMP, PAYANN, RCPPDEMP>>

\* the value tokens a data row is drawn from
ValueToks ==
    { TStr(<<"2", "0", "0">>), TStr(<<" ", "1", "0">>), TStr(<<"0">>), TNum(7),
      TStr(<<"D">>), TStr(<<>>), TStr(<<"(", "S", ")">>), Tok("null"),
      TStr(<<"1", ",", "0">>), Tok("true"), TStr(<<"n", "a", "n">>) }

TablePayloads ==
    { ArrayOf(<<StrRow(CENSUS_HEADER), TokRow(<<a, b, c, d>>)>>) :
        a \in {TStr(<<"2", "0", "0">>), TStr(<<"D">>), Tok("null"), TStr(<<"n", "a", "n">>)},
        b \in {TStr(<<" ", "1", "0">>), TNum(7), TStr(<<>>), Tok("true")},
        c \in ValueToks, d \in ValueToks }

GoodRow == TokRow(<<TStr(<<"1", "0">>), TStr(<<"1", "0", "0">>),
                    TStr(<<"2", "0", "0">>), TStr(<<"3", "0", "0">>)>>)

\* payloads of other shapes: no JSON, JSON that is no table, short and long
\* tables
OddPayloads ==
    { <<>>,
      <<Tok("junk")>>,
      <<LB, LB, TStr(EMP), RB>>,
      <<LB>> \o StrRow(<<EMP>>) \o <<COMMA, RB>>,
      <<LB, RB>>,
      ArrayOf(<<StrRow(CENSUS_HEADER)>>),
      ArrayOf(<<StrRow(CENSUS_HEADER), GoodRow>>),
      ArrayOf(<<StrRow(CENSUS_HEADER), GoodRow, TokRow(<<TStr(<<"D">>)>>)>>),
      ArrayOf(<<StrRow(<<FIRMPDEMP, EMP, PAYANN>>), GoodRow>>),
      ArrayOf(<<StrRow(<<EMP, EMP>>), TokRow(<<TStr(<<"1">>), TStr(<<"2">>)>>)>>),
      <<TNum(5)>>,
      <<TNum(0)>>,
      <<Tok("true")>>,
      <<Tok("false")>>,
      <<Tok("null")>>,
      <<TStr(<<>>)>>,
      <<TStr(<<"a">>)>>,
      <<TStr(<<"a", "b">>)>>,
      <<Tok("{"), Tok("}")>>,
      <<Tok("{"), TStr(<<"a">>), Tok(":"), TNum(1), Tok("}")>>,
      <<Tok("{"), TStr(<<"a">>), Tok(":"), TNum(1), COMMA,
        TStr(<<"b">>), Tok(":"), TNum(2), Tok("}")>>,
      <<LB, TNum(1), COMMA, TNum(2), RB>>,
      ArrayOf(<<StrRow(<<EMP>>), <<TNum(5)>>>>),
      ArrayOf(<<ArrayOf(<<StrRow(<<EMP>>)>>), TokRow(<<TStr(<<"1">>)>>)>>),
      ArrayOf(<<ArrayOf(<<StrRow(<<EMP>>)>>), <<LB, RB>>>>) }

HttpError == [http_error |-> TRUE, payload |-> <<>>]

Body(toks) == [http_error |-> FALSE, payload |-> toks]

Responses == {HttpError} \cup {Body(p) : p \in TablePayloads \cup OddPayloads}

ResponsesNarrow ==
    { HttpError, Body(<<Tok("junk")>>), Body(<<LB, RB>>), Body(<<TNum(5)>>),
      Body(ArrayOf(<<StrRow(CENSUS_HEADER), GoodRow>>)) }

InitFetch ==
    /\ prog = "fetch_census_data"
    /\ responses \in UpToOne(Responses) \cup Pairs(ResponsesNarrow)
    /\ payload = <<>>

InitParse ==
    /\ prog = "parse_census_payload"
    /\ responses = <<>>
    /\ payload \in TablePayloads \cup OddPayloads

InitCensus ==
    /\ pc = "start"
    /\ result = NoResult
    /\ census_df = <<>>
    /\ rdm_df = <<>>
    /\ source_df = <<>>
    /\ allow_wage_tolerance = FALSE
    /\ args = NoArgs
    /\ fs = NoFiles
    /\ trace = <<>>
    /\ (InitFetch \/ InitParse)

\* fetch_census_data(years, counties, naics): one slice per requested key
FetchCensusData ==
    /\ prog = "fetch_census_data"
    /\ pc = "start"
    /\ result' = fetch_census_data(responses)
    /\ pc' = "done"
    /\ UNCHANGED <<prog, census_df, rdm_df, source_df, allow_wage_tolerance,
                   responses, payload, args, fs, trace>>

\* parse_census_payload(payload)
ParseCensusPayload ==
    /\ prog = "parse_census_payload"
    /\ pc = "start"
    /\ result' = parse_census_payload(payload)
    /\ pc' = "done"
    /\ UNCHANGED <<prog, census_df, rdm_df, source_df, allow_wage_tolerance,
                   responses, payload, args, fs, trace>>

NextCensus == FetchCensusData \/ ParseCensusPayload

SpecCensus == InitCensus /\ [][NextCensus]_vars

-----------------------------------------------------------------------------
\* Properties

Returned(p) == prog = p /\ pc = "done" /\ result.status = "ok"

Present(c) == ~c.isna

\* |a - b| <= tol for two present cells, in cross-multiplied integers
Within(a, b, tol) == AbsInt(a.n * b.d - b.n * a.d) <= tol * a.d * b.d

SameNumber(a, b) == a.n * b.d = b.n * a.d

\* |a| <= |b| for two present cells
AbsNoMore(a, b) == AbsInt(a.n) * b.d <= AbsInt(b.n) * a.d

\* C1: in reconcile_abs, pass_firms (pass_emp) of every output row is true
\* exactly when the RDM and the Census firm count (employment) are both
\* present and equal; a difference or an absent side gives false.
C1_ExactCountsAbs ==
    Returned("reconcile_abs") =>
        \A i \in 1..Len(result.rows) :
            LET r == result.rows[i]
            IN  /\ r.pass_firms =
                     ( /\ Present(r.rdm_abs_firms)
                       /\ Present(r.source_census_firmpdemp)
                       /\ SameNumber(r.rdm_abs_firms, r.source_census_firmpdemp) )
                /\ r.pass_emp =
                     ( /\ Present(r.rdm_abs_emp)
                       /\ Present(r.source_census_emp)
                       /\ SameNumber(r.rdm_abs_emp, r.source_census_emp) )

\* a row whose firm counts are both present and differ while its employment
\* values are equal
C1_Witness ==
    /\ Returned("reconcile_abs")
    /\ \E i \in 1..Len(result.rows) :
          LET r == result.rows[i]
          IN  /\ Present(r.rdm_abs_firms) /\ Present(r.source_census_firmpdemp)
              /\ r.rdm_abs_firms # r.source_census_firmpdemp
              /\ ~r.pass_firms
              /\ r.pass_emp

\* C2: in reconcile_abs, pass_payroll (pass_receipts) of every output row is
\* true exactly when both USD amounts are present and differ by at most 1000
\* dollars in either direction.
C2_DollarSlackAbs ==
    Returned("reconcile_abs") =>
        \A i \in 1..Len(result.rows) :
            LET r == result.rows[i]
            IN  /\ r.pass_payroll =
                     ( /\ Present(r.rdm_abs_payroll_usd_amt)
                       /\ Present(r.source_census_payann_usd)
                       /\ Within(r.rdm_abs_payroll_usd_amt, r.source_census_payann_usd, 1000) )
                /\ r.pass_receipts =
                     ( /\ Present(r.rdm_abs_rcpt_usd_amt)
                       /\ Present(r.source_census_rcppdemp_usd)
                       /\ Within(r.rdm_abs_rcpt_usd_amt, r.source_census_rcppdemp_usd, 1000) )

\* a row whose payroll is exactly 1000 dollars over (passes) and whose
\* receipts are exactly 1001 dollars under (fails)
C2_Witness ==
    /\ Returned("reconcile_abs")
    /\ \E i \in 1..Len(result.rows) :
          LET r == result.rows[i]
          IN  /\ r.delta_payroll_usd = Num(1000) /\ r.pass_payroll
              /\ r.delta_receipts_usd = Num(-1001) /\ ~r.pass_receipts

\* C3: in reconcile_qcew, pass_emp (pass_wages) of every output row is true
\* exactly when both values are present and equal, false when both are
\* present and differ, and null when either side is absent.
C3_ExactOrNullQcew ==
    Returned("reconcile_qcew") =>
        \A i \in 1..Len(result.rows) :
            LET r == result.rows[i]
                bothEmp == Present(r.rdm_qcew_emp) /\ Present(r.source_qcew_annual_avg_emplvl)
                bothWages == /\ Present(r.rdm_qcew_wages_usd)
                             /\ Present(r.source_qcew_total_annual_wages_usd)
            IN  /\ r.pass_emp =
                     IF ~bothEmp THEN "None"
                     ELSE IF SameNumber(r.rdm_qcew_emp, r.source_qcew_annual_avg_emplvl)
                     THEN "True" ELSE "False"
                /\ r.pass_wages =
                     IF ~bothWages THEN "None"
                     ELSE IF SameNumber(r.rdm_qcew_wages_usd, r.source_qcew_total_annual_wages_usd)
                     THEN "True" ELSE "False"

\* a row with equal employment, differing wages and no source weekly wage
C3_Witness ==
    /\ Returned("reconcile_qcew")
    /\ \E i \in 1..Len(result.rows) :
          LET r == result.rows[i]
          IN  /\ r.pass_emp = "True"
              /\ Present(r.rdm_qcew_wages_usd)
              /\ Present(r.source_qcew_total_annual_wages_usd)
              /\ r.pass_wages = "False"
              /\ ~Present(r.source_qcew_avg_weekly_wage_usd)
              /\ r.pass_avg_weekly_wage = "None"

\* C4: in reconcile_qcew with allow_wage_tolerance, pass_avg_weekly_wage is
\* true exactly when both weekly wages are present and at most 1 dollar
\* apart; without it, it is true only when they are equal.
C4_WeeklyWageSlack ==
    Returned("reconcile_qcew") =>
        \A i \in 1..Len(result.rows) :
            LET r == result.rows[i]
                both == /\ Present(r.rdm_qcew_avg_weekly_wage_usd)
                        /\ Present(r.source_qcew_avg_weekly_wage_usd)
            IN  IF allow_wage_tolerance
                THEN (r.pass_avg_weekly_wage = "True") =
                       ( both /\ Within(r.rdm_qcew_avg_weekly_wage_usd,
                                        r.source_qcew_avg_weekly_wage_usd, 1) )
                ELSE (r.pass_avg_weekly_wage = "True") =>
                       ( both /\ SameNumber(r.rdm_qcew_avg_weekly_wage_usd,
                                            r.source_qcew_avg_weekly_wage_usd) )

\* with the tolerance on, a row whose weekly wages are exactly 1 dollar apart
\* and passes
C4_Witness ==
    /\ Returned("reconcile_qcew")
    /\ allow_wage_tolerance
    /\ \E i \in 1..Len(result.rows) :
          LET r == result.rows[i]
          IN  /\ r.delta_avg_weekly_wage_usd = Num(1)
              /\ r.pass_avg_weekly_wage = "True"

\* C5: in reconcile_qcew, every output row in which a source metric
\* (employment, total wages or weekly wage) is suppressed or missing carries a
\* source_suppressed or source_missing note and has a null pass_all.
C5_SuppressedExcluded ==
    Returned("reconcile_qcew") =>
        \A i \in 1..Len(result.rows) :
            LET r == result.rows[i]
            IN  ( \/ ~Present(r.source_qcew_annual_avg_emplvl)
                  \/ ~Present(r.source_qcew_total_annual_wages_usd)
                  \/ ~Present(r.source_qcew_avg_weekly_wage_usd) )
                =>  /\ Has(r.notes, "source_suppressed") \/ Has(r.notes, "source_missing")
                    /\ r.pass_all = "None"

\* the three missing_from flags found in a notes list
MissingFlags(flags) ==
    {f \in {"missing_from_both", "missing_from_census", "missing_from_rdm"} : Has(flags, f)}

\* C6: in reconcile_abs, the notes of every output row carry exactly one of
\* missing_from_both, missing_from_census, missing_from_rdm according to which
\* firm count is absent, and none of the three when both are present.
C6_MissingVersusMismatch ==
    Returned("reconcile_abs") =>
        \A i \in 1..Len(result.rows) :
            LET r == result.rows[i]
                src == Present(r.source_census_firmpdemp)
                rdm == Present(r.rdm_abs_firms)
            IN  MissingFlags(r.notes) =
                    IF ~src /\ ~rdm THEN {"missing_from_both"}
                    ELSE IF ~src THEN {"missing_from_census"}
                    ELSE IF ~rdm THEN {"missing_from_rdm"}
                    ELSE {}

\* a result holding a row whose firm count is absent on both sides next to a
\* row whose firm count is absent only from the RDM
C6_Witness ==
    /\ Returned("reconcile_abs")
    /\ \E i, j \in 1..Len(result.rows) :
          /\ ~Present(result.rows[i].source_census_firmpdemp)
          /\ ~Present(result.rows[i].rdm_abs_firms)
          /\ Has(result.rows[i].notes, "missing_from_both")
          /\ Present(result.rows[j].source_census_firmpdemp)
          /\ ~Present(result.rows[j].rdm_abs_firms)
          /\ Has(result.rows[j].notes, "missing_from_rdm")

\* whether some row of the frame under key k has employment, and whether the
\* frame has the key at all
SourceEmpPresent(k) ==
    \E i \in 1..Len(source_df) :
        /\ source_df[i].key = k
        /\ Present(parse_numeric(source_df[i].annual_avg_emplvl).val)

RdmEmpPresent(k) ==
    \E i \in 1..Len(rdm_df) : rdm_df[i].key = k /\ Present(rdm_df[i].emp)

KeySeen(k) ==
    \/ \E i \in 1..Len(source_df) : source_df[i].key = k
    \/ \E i \in 1..Len(rdm_df) : rdm_df[i].key = k

NotedAs(k, flag, verdict) ==
    \E i \in 1..Len(result.rows) :
        /\ result.rows[i].key = k
        /\ Has(result.rows[i].notes, flag)
        /\ result.rows[i].pass_all = verdict

\* C7: reconcile_qcew notes a key present in the source but absent from the
\* RDM as missing_from_rdm with pass_all false, a key absent from the source
\* but present in the RDM as missing_from_source with pass_all null, and a key
\* absent on both sides as missing_from_both with pass_all null.
C7_MissingKeysNoted ==
    (prog = "reconcile_qcew" /\ pc = "done") =>
        \A k \in Keys :
            KeySeen(k) =>
                IF SourceEmpPresent(k) /\ ~RdmEmpPresent(k)
                THEN NotedAs(k, "missing_from_rdm", "False")
                ELSE IF ~SourceEmpPresent(k) /\ RdmEmpPresent(k)
                THEN NotedAs(k, "missing_from_source", "None")
                ELSE IF ~SourceEmpPresent(k) /\ ~RdmEmpPresent(k)
                THEN NotedAs(k, "missing_from_both", "None")
                ELSE TRUE

\* what each raw cell of the sample responses means, written out by hand:
\* a number, a suppression code, a missing value, text that is no number, or
\* a float NaN
CellMeaning ==
    { [cell |-> Str(<<"2", "0", "0">>), kind |-> "num", int |-> 200],
      [cell |-> Str(<<"3", "0", "0">>), kind |-> "num", int |-> 300],
      [cell |-> Str(<<"1", "0", "0">>), kind |-> "num", int |-> 100],
      [cell |-> Str(<<"1", "0">>), kind |-> "num", int |-> 10],
      [cell |-> Str(<<" ", "1", "0">>), kind |-> "num", int |-> 10],
      [cell |-> Str(<<"2">>), kind |-> "num", int |-> 2],
      [cell |-> Str(<<"0">>), kind |-> "num", int |-> 0],
      [cell |-> IntCell(7), kind |-> "num", int |-> 7],
      [cell |-> Str(<<"D">>), kind |-> "suppressed", int |-> 0],
      [cell |-> Str(<<>>), kind |-> "suppressed", int |-> 0],
      [cell |-> Str(<<"(", "S", ")">>), kind |-> "suppressed", int |-> 0],
      [cell |-> NoneCell, kind |-> "missing", int |-> 0],
      [cell |-> Str(<<"1", ",", "0">>), kind |-> "non_numeric", int |-> 0],
      [cell |-> Str(<<"x">>), kind |-> "non_numeric", int |-> 0],
      [cell |-> Str(<<"n", "a", "n">>), kind |-> "nan", int |-> 0] }

Meaning(cell) == CHOOSE m \in CellMeaning : m.cell = cell

ReasonOf(kind) ==
    IF kind = "suppressed" THEN "source_suppressed"
    ELSE IF kind = "missing" THEN "source_missing"
    ELSE "source_non_numeric"

\* one column of one row against the raw value it was made from
ColumnOk(raw, value, flags, scale) ==
    LET m == Meaning(raw)
    IN  /\ m.kind = "num" => value = Num(m.int * scale)
        /\ m.kind \in {"suppressed", "missing", "non_numeric"} =>
              /\ value.isna
              /\ value # Num(0)
              /\ Has(flags, ReasonOf(m.kind))

\* C8: fetch_census_data reports PAYANN and RCPPDEMP times 1000, FIRMPDEMP
\* and EMP unscaled, and keeps a suppressed, missing or non-numeric value
\* absent (never 0) with the reason in the row's notes.
C8_CensusScaling ==
    Returned("fetch_census_data") =>
        \A i \in 1..Len(result.rows) :
            LET rec == fetch_census_slice(responses[i])
                row == result.rows[i]
            IN  /\ ColumnOk(RecordGet(rec, FIRMPDEMP), row.firm, row.notes.flags, 1)
                /\ ColumnOk(RecordGet(rec, EMP), row.emp, row.notes.flags, 1)
                /\ ColumnOk(RecordGet(rec, PAYANN), row.pay, row.notes.flags, 1000)
                /\ ColumnOk(RecordGet(rec, RCPPDEMP), row.rcpt, row.notes.flags, 1000)

\* a row made from FIRMPDEMP "200", EMP 7, PAYANN "200" and a suppressed
\* RCPPDEMP
C8_Witness ==
    /\ Returned("fetch_census_data")
    /\ \E i \in 1..Len(result.rows) :
          /\ result.rows[i].firm = Num(200)
          /\ result.rows[i].emp = Num(7)
          /\ result.rows[i].pay = Num(200000)
          /\ result.rows[i].rcpt.isna
          /\ Has(result.rows[i].notes.flags, "source_suppressed")

\* whether a JSON value is an array of at least two arrays of strings
IsStrArray(j) ==
    j.t = "arr" /\ \A i \in 1..Len(j.items) : j.items[i].t = "str"

IsTable(j) ==
    /\ j.t = "arr"
    /\ Len(j.items) >= 2
    /\ IsStrArray(j.items[1])
    /\ j.items[2].t = "arr"
    /\ Len(j.items[2].items) = Len(j.items[1].items)

\* the pairs that map each header name to the value of the first data row
MapsHeader(pairs, j) ==
    LET header == j.items[1].items
        row == j.items[2].items
    IN  /\ \A i \in 1..Len(pairs) : \E c \in 1..Len(header) : pairs[i].k = header[c]
        /\ \A c \in 1..Len(header) :
              LET last == CHOOSE d \in 1..Len(header) :
                              /\ header[d] = header[c]
                              /\ \A e \in (d + 1)..Len(header) : header[e] # header[c]
              IN  \E i \in 1..Len(pairs) :
                      pairs[i].k = header[c] /\ pairs[i].val = row[last]

\* C9: parse_census_payload never raises on a textual payload; a table gives
\* the header-to-first-row mapping, text that is no JSON gives only a
\* census_json_error note, an empty or header-only array gives the note
\* census_empty_response.
C9_ParseNeverRaises ==
    (prog = "parse_census_payload" /\ pc = "done") =>
        LET j == json_loads(payload)
        IN  /\ result.status = "ok"
            /\ ~j.ok => result.notes = "census_json_error" /\ result.pairs = <<>>
            /\ (j.ok /\ j.val.t = "arr" /\ Len(j.val.items) < 2) =>
                  result.notes = "census_empty_response"
            /\ (j.ok /\ IsTable(j.val)) =>
                  result.notes = "" /\ MapsHeader(result.pairs, j.val)

\* the metrics of a row: the flag, the difference and the relative
\* difference, with whether both sides are present
AbsMetrics(r) ==
    << [pass |-> r.pass_firms, delta |-> r.delta_firms, pct |-> r.delta_firms_pct],
       [pass |-> r.pass_emp, delta |-> r.delta_emp, pct |-> r.delta_emp_pct],
       [pass |-> r.pass_payroll, delta |-> r.delta_payroll_usd, pct |-> r.delta_payroll_pct],
       [pass |-> r.pass_receipts, delta |-> r.delta_receipts_usd,
        pct |-> r.delta_receipts_pct] >>

QcewMetrics(r) ==
    << [pass |-> r.pass_emp = "True", delta |-> r.delta_emp, pct |-> r.delta_emp_pct],
       [pass |-> r.pass_wages = "True", delta |-> r.delta_wages_usd,
        pct |-> r.delta_wages_pct],
       [pass |-> r.pass_avg_weekly_wage = "True", delta |-> r.delta_avg_weekly_wage_usd,
        pct |-> r.delta_avg_weekly_wage_pct] >>

MetricsOf(r) == IF prog = "reconcile_abs" THEN AbsMetrics(r) ELSE QcewMetrics(r)

Reconciled == Returned("reconcile_abs") \/ Returned("reconcile_qcew")

\* C10 as stated: the pass flag of a metric is decided by its relative
\* difference against a percentage threshold, so of two rows the one with the
\* relative difference no larger passes whenever the other does.
C10_PercentageDecides ==
    Reconciled =>
        \A i, j \in 1..Len(result.rows) :
            \A m \in 1..Len(MetricsOf(result.rows[i])) :
                LET a == MetricsOf(result.rows[i])[m]
                    b == MetricsOf(result.rows[j])[m]
                IN  ( /\ Present(a.pct) /\ Present(b.pct)
                      /\ AbsNoMore(a.pct, b.pct)
                      /\ b.pass ) => a.pass

\* C10 amended: the pass flag of a metric is decided by its absolute
\* difference against a fixed slack, so of two rows with both sides present
\* the one with the absolute difference no larger passes whenever the other
\* does, whatever the relative differences are.
C10_AbsoluteDecides ==
    Reconciled =>
        \A i, j \in 1..Len(result.rows) :
            \A m \in 1..Len(MetricsOf(result.rows[i])) :
                LET a == MetricsOf(result.rows[i])[m]
                    b == MetricsOf(result.rows[j])[m]
                IN  ( /\ Present(a.delta) /\ Present(b.delta)
                      /\ AbsNoMore(a.delta, b.delta)
                      /\ b.pass ) => a.pass

\* two payroll rows with the same relative difference of one percent, one 1000
\* dollars off and passing, the other 2000 dollars off and failing
C10_Witness ==
    /\ Returned("reconcile_abs")
    /\ \E i, j \in 1..Len(result.rows) :
          /\ result.rows[i].delta_payroll_pct = result.rows[j].delta_payroll_pct
          /\ Present(result.rows[i].delta_payroll_pct)
          /\ result.rows[i].delta_payroll_usd = Num(1000)
          /\ result.rows[j].delta_payroll_usd = Num(2000)
          /\ result.rows[i].pass_payroll
          /\ ~result.rows[j].pass_payroll

-----------------------------------------------------------------------------
\* Entry points outside the reconciliation calls take their inputs in args
\* and fs; the reconciliation frames stay empty.

NoFrames ==
    /\ census_df = <<>>
    /\ rdm_df = <<>>
    /\ source_df = <<>>
    /\ allow_wage_tolerance = FALSE
    /\ responses = <<>>
    /\ payload = <<>>

frames == <<census_df, rdm_df, source_df, allow_wage_tolerance, responses, payload>>

-----------------------------------------------------------------------------
\* Text helpers of the loaders

LowerCase ==
    <<"a", "b", "c", "d", "e", "f", "g", "h", "i", "j", "k", "l", "m",
      "n", "o", "p", "q", "r", "s", "t", "u", "v", "w", "x", "y", "z">>

UpperCase ==
    <<"A", "B", "C", "D", "E", "F", "G", "H", "I", "J", "K", "L", "M",
      "N", "O", "P", "Q", "R", "S", "T", "U", "V", "W", "X", "Y", "Z">>

\* str.upper() and str.lower()
Upper(s) ==
    [i \in 1..Len(s) |->
        IF \E k \in 1..26 : LowerCase[k] = s[i]
        THEN UpperCase[CHOOSE k \in 1..26 : LowerCase[k] = s[i]]
        ELSE s[i]]

Lower(s) ==
    [i \in 1..Len(s) |->
        IF \E k \in 1..26 : UpperCase[k] = s[i]
        THEN LowerCase[CHOOSE k \in 1..26 : UpperCase[k] = s[i]]
        ELSE s[i]]

\* str.zfill(width) on text without a sign
RECURSIVE ZFill(_, _)
ZFill(s, width) == IF Len(s) >= width THEN s ELSE ZFill(<<"0">> \o s, width)

\* str.startswith
StartsWith(s, prefix) ==
    Len(s) >= Len(prefix) /\ SubSeq(s, 1, Len(prefix)) = prefix

-----------------------------------------------------------------------------
\* qa/qcew_reconciliation.py: load_qcew_source

FipsWidth == 5

\* _normalize_naics2: the sector text, or <<>> where the code returns None
\* (no sector text is empty)
normalize_naics2(code) ==
    LET text == Strip(ToText(code))
        cleaned == SelectSeq(text, LAMBDA ch : IsDigit(ch) \/ ch = "-")
        digits == SelectSeq(cleaned, IsDigit)
    IN  IF cleaned = <<>> THEN <<>>
        ELSE IF \/ StartsWith(cleaned, <<"3", "1">>)
                \/ StartsWith(cleaned, <<"3", "2">>)
                \/ StartsWith(cleaned, <<"3", "3">>)
        THEN <<"3", "1", "-", "3", "3">>
        ELSE IF StartsWith(cleaned, <<"4", "4">>) \/ StartsWith(cleaned, <<"4", "5">>)
        THEN <<"4", "4", "-", "4", "5">>
        ELSE IF StartsWith(cleaned, <<"4", "8">>) \/ StartsWith(cleaned, <<"4", "9">>)
        THEN <<"4", "8", "-", "4", "9">>
        ELSE IF Len(digits) < 2 THEN <<>>
        ELSE SubSeq(digits, 1, 2)

\* Path(config.raw_template.format(year=year)); a template without the
\* {year} placeholder names the same file for every year (name 0)
RawPath(config, year) ==
    [dir |-> "raw", name |-> IF config.template_has_year THEN year ELSE 0]

\* config.cache_dir / f"{year}.annual.singlefile.csv"
CachedPath(config, year) == [dir |-> "cache", name |-> year]

Exists(files, path) == path \in DOMAIN files

\* variant: the cached copy is looked up before the raw_template path
ResolvePath_cache_first(config, files, year) ==
    IF Exists(files, CachedPath(config, year))
    THEN [found |-> TRUE, path |-> CachedPath(config, year)]
    ELSE IF Exists(files, RawPath(config, year))
    THEN [found |-> TRUE, path |-> RawPath(config, year)]
    ELSE [found |-> FALSE, path |-> RawPath(config, year)]

\* the raw_path the loop ends up with for one year
ResolvePath(config, files, year) ==
    IF Exists(files, RawPath(config, year))
    THEN [found |-> TRUE, path |-> RawPath(config, year)]
    ELSE IF Exists(files, CachedPath(config, year))
    THEN [found |-> TRUE, path |-> CachedPath(config, year)]
    ELSE [found |-> FALSE, path |-> RawPath(config, year)]

\* one row of a year's frame after the column additions
NormalizedRow(config, file, row) ==
    LET area == ZFill(ToText(row.area_fips), FipsWidth)
    IN  [year |-> ToText(row.year),
         qtr |-> IF file.has_qtr THEN row.qtr ELSE NoneCell,
         own_code |-> IF file.has_own THEN ToText(row.own_code)
                      ELSE config.ownership_code,
         agglvl_code |-> ToText(row.agglvl_code),
         area_fips |-> area,
         state_cnty_fips_cd |-> area,
         naics2_sector_cd |-> normalize_naics2(row.industry_code),
         annual_avg_emplvl |-> row.annual_avg_emplvl]

\* the filters of one year, in the order of the code
KeptInYear(config, file, year, row) ==
    /\ ToText(row.year) = NatToText(year)
    /\ file.has_qtr => Upper(ToText(row.qtr)) = <<"A">>
    /\ file.has_own => ToText(row.own_code) = config.ownership_code
    /\ ToText(row.agglvl_code) = config.agg_level
    /\ Len(ZFill(ToText(row.area_fips), FipsWidth)) = FipsWidth
    /\ normalize_naics2(row.industry_code) # <<>>

\* the body of the loop for one year: the frame appended, or the exception
LoadYear(config, files, year) ==
    LET r == ResolvePath(config, files, year)
    IN  IF ~r.found
        THEN [status |-> "FileNotFoundError", read |-> <<>>, has_qtr |-> FALSE,
              rows |-> <<>>]
        ELSE LET file == files[r.path]
                 kept == SelectSeq(file.rows,
                                   LAMBDA row : KeptInYear(config, file, year, row))
             IN  IF ~file.columns_ok
                 THEN [status |-> "ValueError", read |-> <<r.path>>,
                       has_qtr |-> FALSE, rows |-> <<>>]
                 ELSE [status |-> "ok", read |-> <<r.path>>,
                       has_qtr |-> file.has_qtr,
                       rows |-> [i \in 1..Len(kept) |->
                                    NormalizedRow(config, file, kept[i])]]

RECURSIVE Concat(_)
Concat(seqs) == IF seqs = <<>> THEN <<>> ELSE Head(seqs) \o Concat(Tail(seqs))

\* pd.concat(frames): a column that only some frames have is NaN in the rows
\* of the others
ConcatFrames(loads) ==
    LET any_qtr == \E i \in 1..Len(loads) : loads[i].has_qtr
        Fill(load) ==
            [i \in 1..Len(load.rows) |->
                IF any_qtr /\ ~load.has_qtr
                THEN [load.rows[i] EXCEPT !.qtr = NanCell]
                ELSE load.rows[i]]
    IN  Concat([i \in 1..Len(loads) |-> Fill(loads[i])])

SourceKey(row) == <<row.year, row.state_cnty_fips_cd, row.naics2_sector_cd>>

\* variant: every row of a key is kept
drop_duplicates_keep_all(rows) == rows

\* DataFrame.drop_duplicates(subset=key columns): the first row of a key stays
drop_duplicates(rows) ==
    LET first == {i \in 1..Len(rows) :
                     \A j \in 1..(i - 1) : SourceKey(rows[j]) # SourceKey(rows[i])}
        Pick(n) == CHOOSE i \in first : Cardinality({j \in first : j < i}) = n - 1
    IN  [n \in 1..Cardinality(first) |-> rows[Pick(n)]]

\* load_qcew_source(config) over the files: what it returned or raised, and
\* the paths handed to pd.read_csv
load_qcew_source(config, files) ==
    LET loads == [i \in 1..Len(config.years) |->
                     LoadYear(config, files, config.years[i])]
        failed == {i \in 1..Len(loads) : loads[i].status # "ok"}
        stop == IF failed = {} THEN Len(loads) + 1
                ELSE CHOOSE i \in failed : \A j \in failed : i <= j
        read == Concat([i \in 1..Min(stop, Len(loads)) |-> loads[i].read])
        combined == ConcatFrames(loads)
        in_county == SelectSeq(combined,
                               LAMBDA row : row.state_cnty_fips_cd \in config.counties)
        in_naics == SelectSeq(in_county,
                              LAMBDA row : row.naics2_sector_cd \in config.naics)
    IN  IF failed # {}
        THEN [status |-> loads[stop].status, rows |-> <<>>, read |-> read]
        ELSE IF Len(loads) = 0
        THEN [status |-> "ValueError", rows |-> <<>>, read |-> read]
        ELSE [status |-> "ok", rows |-> drop_duplicates(in_naics), read |-> read]

\* Inputs of load_qcew_source: the configuration of the fixture test with one
\* or two requested years, and files holding one row drawn from the full
\* product of the sample cells or two rows drawn from a narrower product
Y2022 == 2022

Y2023 == 2023

T(v) == Str(NatToText(v))

DEFAULT_COUNTIES == { <<"0", "6", "0", "7", "5">>, <<"0", "6", "0", "8", "5">> }

DEFAULT_NAICS == { <<"4", "2">>, <<"6", "2">>, <<"3", "1", "-", "3", "3">> }

QcewConfigs(YearLists) ==
    [years : YearLists,
     counties : {DEFAULT_COUNTIES},
     naics : {DEFAULT_NAICS},
     ownership_code : {<<"5">>},
     agg_level : {<<"7", "4">>},
     template_has_year : BOOLEAN]

\* a CSV file: whether the required columns are there, whether the optional
\* qtr and own_code columns are there, and the rows (a cell of a column that
\* is not there is None)
CsvFile(has_qtr, has_own, rows) ==
    [columns_ok |-> TRUE, has_qtr |-> has_qtr, has_own |-> has_own,
     rows |-> [i \in 1..Len(rows) |->
                 [rows[i] EXCEPT !.qtr = IF has_qtr THEN @ ELSE NoneCell,
                                 !.own_code = IF has_own THEN @ ELSE NoneCell]]]

BadColumnsFile ==
    [columns_ok |-> FALSE, has_qtr |-> FALSE, has_own |-> FALSE, rows |-> <<>>]

SourceRowsFull ==
    [year : {T(Y2022), T(Y2023)},
     qtr : {Str(<<"A">>), Str(<<"a">>), Str(<<"1">>), NanCell},
     own_code : {Str(<<"5">>), Str(<<"1">>)},
     agglvl_code : {Str(<<"7", "4">>), Str(<<"7", "5">>)},
     area_fips : {Str(<<"0", "6", "0", "7", "5">>), Str(<<"6", "0", "7", "5">>),
                  Str(<<"0", "6", "0", "0", "1">>), Str(<<"1", "2", "3", "4", "5", "6">>)},
     industry_code : {Str(<<"4", "2">>), Str(<<"4", "2", "3">>), Str(<<"3", "2", "5">>),
                      Str(<<"1">>), NanCell},
     annual_avg_emplvl : {Str(<<"1">>)}]

SourceRowsNarrow ==
    [year : {T(Y2022)},
     qtr : {Str(<<"A">>), Str(<<"a">>)},
     own_code : {Str(<<"5">>)},
     agglvl_code : {Str(<<"7", "4">>)},
     area_fips : {Str(<<"0", "6", "0", "7", "5">>), Str(<<"6", "0", "7", "5">>),
                  Str(<<"0", "6", "0", "8", "5">>)},
     industry_code : {Str(<<"4", "2">>), Str(<<"4", "2", "3">>), Str(<<"6", "2">>)},
     annual_avg_emplvl : {Str(<<"1">>), Str(<<"2">>)}]

FilesOver(RowSeqs) ==
    {CsvFile(hq, ho, rows) : hq \in BOOLEAN, ho \in BOOLEAN, rows \in RowSeqs}

\* one file at the raw_template path of the one requested year
OneFileInputs ==
    LET Files == FilesOver(UpToOne(SourceRowsFull)) \cup FilesOver(Pairs(SourceRowsNarrow))
        Configs == {c \in QcewConfigs({<<Y2022>>}) : c.template_has_year}
    IN  {[config |-> c, files |-> (RawPath(c, Y2022) :> f)] : c \in Configs, f \in Files}

\* the files a path can hold in the runs over several years
SampleRow(year, emp) ==
    [year |-> T(year), qtr |-> Str(<<"A">>), own_code |-> Str(<<"5">>),
     agglvl_code |-> Str(<<"7", "4">>), area_fips |-> Str(<<"0", "6", "0", "7", "5">>),
     industry_code |-> Str(<<"4", "2">>), annual_avg_emplvl |-> Str(<<emp>>)]

SampleFiles ==
    { BadColumnsFile,
      CsvFile(TRUE, TRUE, <<SampleRow(Y2022, "1"), SampleRow(Y2023, "1")>>),
      CsvFile(FALSE, TRUE, <<SampleRow(Y2022, "2"), SampleRow(Y2023, "2")>>) }

SamplePaths ==
    { [dir |-> "raw", name |-> 0], [dir |-> "raw", name |-> Y2022],
      [dir |-> "raw", name |-> Y2023], [dir |-> "cache", name |-> Y2022],
      [dir |-> "cache", name |-> Y2023] }

\* every way of having some of the paths on disk
FileSystems ==
    UNION { [present -> SampleFiles] : present \in SUBSET SamplePaths }

YearLists ==
    { <<>>, <<Y2022>>, <<Y2022, Y2023>>, <<Y2023, Y2022>>, <<Y2022, Y2022>> }

ManyFilesInputs ==
    {[config |-> c, files |-> f] : c \in QcewConfigs(YearLists), f \in FileSystems}

InitLoadQcewSource ==
    /\ prog = "load_qcew_source"
    /\ pc = "start"
    /\ result = NoResult
    /\ trace = <<>>
    /\ NoFrames
    /\ \E in \in OneFileInputs \cup ManyFilesInputs :
          /\ args = in.config
          /\ fs = in.files

\* load_qcew_source(config)
LoadQcewSource ==
    /\ prog = "load_qcew_source"
    /\ pc = "start"
    /\ LET r == load_qcew_source(args, fs)
       IN  /\ result' = [status |-> r.status, rows |-> r.rows]
           /\ trace' = r.read
    /\ pc' = "done"
    /\ UNCHANGED <<prog, frames, args, fs>>

NextSource == LoadQcewSource

SpecSource == InitLoadQcewSource /\ [][NextSource]_vars


\* the file a returned row was read from: the one read for its year
SourceFileOf(row) ==
    fs[trace[CHOOSE i \in 1..Len(args.years) : NatToText(args.years[i]) = row.year]]

RequestedYear(row) ==
    \E i \in 1..Len(args.years) : row.year = NatToText(args.years[i])

UniqueSourceKeys ==
    \A i, j \in 1..Len(result.rows) :
        ( /\ result.rows[i].year = result.rows[j].year
          /\ result.rows[i].state_cnty_fips_cd = result.rows[j].state_cnty_fips_cd
          /\ result.rows[i].naics2_sector_cd = result.rows[j].naics2_sector_cd ) => i = j

\* what C11 says of every returned row but the quarter
FilteredRow(row) ==
    /\ RequestedYear(row)
    /\ row.own_code = args.ownership_code
    /\ row.agglvl_code = args.agg_level
    /\ row.state_cnty_fips_cd \in args.counties
    /\ row.naics2_sector_cd \in args.naics

\* C11 as stated: every row load_qcew_source returns is of a requested year,
\* has qtr equal to A when its file has a quarter column, has the configured
\* ownership code and aggregation level, a county of config.counties and a
\* sector of config.naics, and no two returned rows share (year, county FIPS,
\* NAICS2 sector).
C11_SourceRowsFiltered ==
    Returned("load_qcew_source") =>
        /\ \A i \in 1..Len(result.rows) :
              /\ FilteredRow(result.rows[i])
              /\ SourceFileOf(result.rows[i]).has_qtr
                    => result.rows[i].qtr = Str(<<"A">>)
        /\ UniqueSourceKeys

\* C11 amended: as above, with the quarter compared ignoring letter case (a
\* row whose qtr cell is the lower-case a is returned as well).
C11_SourceRowsFilteredAnyCase ==
    Returned("load_qcew_source") =>
        /\ \A i \in 1..Len(result.rows) :
              /\ FilteredRow(result.rows[i])
              /\ SourceFileOf(result.rows[i]).has_qtr
                    => result.rows[i].qtr \in {Str(<<"A">>), Str(<<"a">>)}
        /\ UniqueSourceKeys

\* a file with a quarter column and two rows of one key (the county written
\* with and without its leading zero), of which one row comes back, its
\* quarter in lower case
C11_Witness ==
    /\ Returned("load_qcew_source")
    /\ Len(result.rows) = 1
    /\ result.rows[1].qtr = Str(<<"a">>)
    /\ \E p \in DOMAIN fs :
          /\ fs[p].has_qtr
          /\ Len(fs[p].rows) = 2
          /\ fs[p].rows[1].area_fips # fs[p].rows[2].area_fips
          /\ \A k \in 1..2 : fs[p].rows[k].industry_code = Str(<<"4", "2">>)

\* the path the loop must read for a year: the raw_template path when it is
\* on disk, the cached copy otherwise
OnDisk(dir, name) == [dir |-> dir, name |-> name] \in DOMAIN fs

RawName(year) == IF args.template_has_year THEN year ELSE 0

YearMissing(year) == ~OnDisk("raw", RawName(year)) /\ ~OnDisk("cache", year)

FirstChoice(year) ==
    IF OnDisk("raw", RawName(year)) THEN [dir |-> "raw", name |-> RawName(year)]
    ELSE [dir |-> "cache", name |-> year]

\* the years before position i were found and read without an error
LoopReaches(i) ==
    \A j \in 1..(i - 1) :
        /\ ~YearMissing(args.years[j])
        /\ fs[FirstChoice(args.years[j])].columns_ok

\* C20: for every year the loop comes to, load_qcew_source reads the
\* raw_template path if it exists and otherwise the cached
\* <year>.annual.singlefile.csv; if neither exists it raises FileNotFoundError
\* at that year, and whenever a requested year has no file no data is returned.
C20_ResolutionOrder ==
    (prog = "load_qcew_source" /\ pc = "done") =>
        /\ \A i \in 1..Len(trace) : trace[i] = FirstChoice(args.years[i])
        /\ \A i \in 1..Len(args.years) :
              LoopReaches(i) =>
                 IF YearMissing(args.years[i])
                 THEN result.status = "FileNotFoundError" /\ Len(trace) = i - 1
                 ELSE Len(trace) >= i
        /\ (\E i \in 1..Len(args.years) : YearMissing(args.years[i]))
              => result.status # "ok" /\ result.rows = <<>>
        /\ result.status = "FileNotFoundError"
              => \E i \in 1..Len(args.years) : YearMissing(args.years[i])

\* two years: the first read from its cached copy because the raw_template
\* path is not there, the second with no file at all
C20_Witness ==
    /\ prog = "load_qcew_source" /\ pc = "done"
    /\ Len(args.years) = 2
    /\ args.template_has_year
    /\ trace = <<[dir |-> "cache", name |-> args.years[1]]>>
    /\ YearMissing(args.years[2])
    /\ result.status = "FileNotFoundError"

-----------------------------------------------------------------------------
\* scripts/integration/econ_bnchmrk_abs_qcew_merge.py: assemble

\* the order of two characters of a key text: "-" sorts before the digits
CharRank(c) == IF IsDigit(c) THEN DigitVal(c) + 1 ELSE 0

\* a < b for str
RECURSIVE TextLess(_, _)
TextLess(a, b) ==
    IF b = <<>> THEN FALSE
    ELSE IF a = <<>> THEN TRUE
    ELSE IF Head(a) # Head(b) THEN CharRank(Head(a)) < CharRank(Head(b))
    ELSE TextLess(Tail(a), Tail(b))

MergeKey(row) == <<row.year_num, row.state_cnty_fips_cd, row.naics2_sector_cd>>

\* the order of sort_values on the three key columns
KeyLess(a, b) ==
    \/ a.year_num < b.year_num
    \/ /\ a.year_num = b.year_num
       /\ \/ TextLess(a.state_cnty_fips_cd, b.state_cnty_fips_cd)
          \/ /\ a.state_cnty_fips_cd = b.state_cnty_fips_cd
             /\ TextLess(a.naics2_sector_cd, b.naics2_sector_cd)

\* DataFrame.sort_values(key columns): a stable sort
RECURSIVE InsertByKey(_, _)
InsertByKey(sorted, row) ==
    IF sorted = <<>> THEN <<row>>
    ELSE IF KeyLess(row, Head(sorted)) THEN <<row>> \o sorted
    ELSE <<Head(sorted)>> \o InsertByKey(Tail(sorted), row)

RECURSIVE SortByKey(_)
SortByKey(rows) ==
    IF rows = <<>> THEN <<>>
    ELSE InsertByKey(SortByKey(SubSeq(rows, 1, Len(rows) - 1)), rows[Len(rows)])

AbsPath(year) == [dir |-> "abs", name |-> year]

QcewPath(year) == [dir |-> "qcew", name |-> year]

RefPath == [dir |-> "ref", name |-> 0]

\* load_abs / load_qcew: the rows of the year's file with year_num set
LoadedYear(rows, year) ==
    [i \in 1..Len(rows) |-> [rows[i] EXCEPT !.year_num = year]]

\* the columns of one side of the outer merge where the other side has no row
NoAbs ==
    [cnty_nm |-> NanCell, abs_firm_num |-> NaN, abs_emp_num |-> NaN,
     abs_payroll_usd_amt |-> NaN, abs_rcpt_usd_amt |-> NaN]

NoQcew == [qcew_ann_avg_emp_lvl_num |-> NaN, qcew_ttl_ann_wage_usd_amt |-> NaN]

Merged(year, fips, naics, a, q) ==
    [year_num |-> year, state_cnty_fips_cd |-> fips, naics2_sector_cd |-> naics,
     state_fips_cd |-> SubSeq(fips, 1, Min(2, Len(fips))),
     cnty_nm |-> a.cnty_nm,
     abs_firm_num |-> a.abs_firm_num, abs_emp_num |-> a.abs_emp_num,
     abs_payroll_usd_amt |-> a.abs_payroll_usd_amt,
     abs_rcpt_usd_amt |-> a.abs_rcpt_usd_amt,
     qcew_ann_avg_emp_lvl_num |-> q.qcew_ann_avg_emp_lvl_num,
     qcew_ttl_ann_wage_usd_amt |-> q.qcew_ttl_ann_wage_usd_amt]

\* merge_year: the outer merge on the three key columns; every ABS row meets
\* every QCEW row of its key, a row without a partner keeps NaN on the other
\* side (the rows are sorted by key afterwards, in assemble)
merge_year(abs_df, qcew_df) ==
    LET Partners(a) == SelectSeq(qcew_df, LAMBDA q : MergeKey(q) = MergeKey(a))
        OfAbs(a) ==
            IF Partners(a) = <<>>
            THEN <<Merged(a.year_num, a.state_cnty_fips_cd, a.naics2_sector_cd, a, NoQcew)>>
            ELSE [k \in 1..Len(Partners(a)) |->
                     Merged(a.year_num, a.state_cnty_fips_cd, a.naics2_sector_cd,
                            a, Partners(a)[k])]
        alone == SelectSeq(qcew_df,
                           LAMBDA q : \A i \in 1..Len(abs_df) :
                                         MergeKey(abs_df[i]) # MergeKey(q))
    IN  Concat([i \in 1..Len(abs_df) |-> OfAbs(abs_df[i])])
            \o [k \in 1..Len(alone) |->
                   Merged(alone[k].year_num, alone[k].state_cnty_fips_cd,
                          alone[k].naics2_sector_cd, NoAbs, alone[k])]

\* derive_metrics: the four ratios, NaN over a zero or missing denominator
derive_metrics(rows) ==
    [i \in 1..Len(rows) |->
        [year_num |-> rows[i].year_num,
         state_cnty_fips_cd |-> rows[i].state_cnty_fips_cd,
         naics2_sector_cd |-> rows[i].naics2_sector_cd,
         state_fips_cd |-> rows[i].state_fips_cd,
         cnty_nm |-> rows[i].cnty_nm,
         abs_firm_num |-> rows[i].abs_firm_num,
         abs_emp_num |-> rows[i].abs_emp_num,
         abs_payroll_usd_amt |-> rows[i].abs_payroll_usd_amt,
         abs_rcpt_usd_amt |-> rows[i].abs_rcpt_usd_amt,
         qcew_ann_avg_emp_lvl_num |-> rows[i].qcew_ann_avg_emp_lvl_num,
         qcew_ttl_ann_wage_usd_amt |-> rows[i].qcew_ttl_ann_wage_usd_amt,
         abs_rcpt_per_emp_usd_amt |-> Over(rows[i].abs_rcpt_usd_amt, rows[i].abs_emp_num),
         abs_wage_per_emp_usd_amt |-> Over(rows[i].abs_payroll_usd_amt, rows[i].abs_emp_num),
         abs_rcpt_per_firm_usd_amt |-> Over(rows[i].abs_rcpt_usd_amt, rows[i].abs_firm_num),
         qcew_wage_per_emp_usd_amt |->
             Over(rows[i].qcew_ttl_ann_wage_usd_amt, rows[i].qcew_ann_avg_emp_lvl_num)]]

\* a derived row with the population columns of one reference row (or none)
WithPopulation(row, cnty_nm, population_num) ==
    [year_num |-> row.year_num,
     state_cnty_fips_cd |-> row.state_cnty_fips_cd,
     naics2_sector_cd |-> row.naics2_sector_cd,
     state_fips_cd |-> row.state_fips_cd,
     cnty_nm |-> IF row.cnty_nm.t = "nan" THEN cnty_nm ELSE row.cnty_nm,
     abs_firm_num |-> row.abs_firm_num,
     abs_emp_num |-> row.abs_emp_num,
     abs_payroll_usd_amt |-> row.abs_payroll_usd_amt,
     abs_rcpt_usd_amt |-> row.abs_rcpt_usd_amt,
     qcew_ann_avg_emp_lvl_num |-> row.qcew_ann_avg_emp_lvl_num,
     qcew_ttl_ann_wage_usd_amt |-> row.qcew_ttl_ann_wage_usd_amt,
     abs_rcpt_per_emp_usd_amt |-> row.abs_rcpt_per_emp_usd_amt,
     abs_wage_per_emp_usd_amt |-> row.abs_wage_per_emp_usd_amt,
     abs_rcpt_per_firm_usd_amt |-> row.abs_rcpt_per_firm_usd_amt,
     qcew_wage_per_emp_usd_amt |-> row.qcew_wage_per_emp_usd_amt,
     population_num |-> population_num]

\* enrich_population: the left merge on state_cnty_fips_cd; a row meets every
\* reference row of its county, in the order of the reference
enrich_population(rows, ref) ==
    LET Of(row) ==
            LET hits == SelectSeq(ref, LAMBDA r : r.state_cnty_fips_cd = row.state_cnty_fips_cd)
            IN  IF hits = <<>> THEN <<WithPopulation(row, NanCell, NaN)>>
                ELSE [k \in 1..Len(hits) |->
                         WithPopulation(row, hits[k].cnty_nm, hits[k].population_num)]
    IN  Concat([i \in 1..Len(rows) |-> Of(rows[i])])

\* variant: the duplicate count is never looked at
duplicated_sum_ignored(rows) == 0

\* combined.duplicated(subset=key columns).sum(): the rows whose key an
\* earlier row has
duplicated_sum(rows) ==
    Cardinality({i \in 1..Len(rows) :
                    \E j \in 1..(i - 1) : MergeKey(rows[j]) = MergeKey(rows[i])})

\* assemble(years, abs_pattern, qcew_pattern, ref_csv) over the files
assemble(years, files) ==
    LET missing == {i \in 1..Len(years) :
                       ~Exists(files, AbsPath(years[i])) \/ ~Exists(files, QcewPath(years[i]))}
        merged == [i \in 1..Len(years) |->
                     merge_year(LoadedYear(files[AbsPath(years[i])], years[i]),
                                LoadedYear(files[QcewPath(years[i])], years[i]))]
        combined == SortByKey(enrich_population(derive_metrics(Concat(merged)),
                                                files[RefPath]))
    IN  IF missing # {} \/ ~Exists(files, RefPath)
        THEN [status |-> "FileNotFoundError", rows |-> <<>>]
        ELSE IF duplicated_sum(combined) # 0
        THEN [status |-> "AssertionError", rows |-> <<>>]
        ELSE [status |-> "ok", rows |-> combined]

\* Inputs of assemble: per-year ABS and QCEW extracts and the population
\* reference, each with no row, one row of the full product or two rows of a
\* narrower product
FIPS_SF == <<"0", "6", "0", "7", "5">>

FIPS_SC == <<"0", "6", "0", "8", "5">>

SECTOR_42 == <<"4", "2">>

SECTOR_62 == <<"6", "2">>

AbsExtractRows ==
    [year_num : {Y2022},
     state_cnty_fips_cd : {FIPS_SF, FIPS_SC},
     naics2_sector_cd : {SECTOR_42, SECTOR_62},
     cnty_nm : {NanCell, Str(<<"S", "F">>)},
     abs_firm_num : {Num(10)},
     abs_emp_num : {Num(0), Num(100)},
     abs_payroll_usd_amt : {Num(200000)},
     abs_rcpt_usd_amt : {NaN, Num(300000)}]

AbsExtractNarrow ==
    [year_num : {Y2022},
     state_cnty_fips_cd : {FIPS_SF, FIPS_SC},
     naics2_sector_cd : {SECTOR_42},
     cnty_nm : {NanCell},
     abs_firm_num : {Num(10)},
     abs_emp_num : {Num(100)},
     abs_payroll_usd_amt : {Num(200000)},
     abs_rcpt_usd_amt : {Num(300000)}]

QcewExtractRows ==
    [year_num : {Y2022},
     state_cnty_fips_cd : {FIPS_SF, FIPS_SC},
     naics2_sector_cd : {SECTOR_42, SECTOR_62},
     qcew_ann_avg_emp_lvl_num : {Num(0), Num(50)},
     qcew_ttl_ann_wage_usd_amt : {NaN, Num(1000)}]

QcewExtractNarrow ==
    [year_num : {Y2022},
     state_cnty_fips_cd : {FIPS_SF, FIPS_SC},
     naics2_sector_cd : {SECTOR_42},
     qcew_ann_avg_emp_lvl_num : {Num(50)},
     qcew_ttl_ann_wage_usd_amt : {Num(1000)}]

RefRows ==
    [state_cnty_fips_cd : {FIPS_SF, FIPS_SC},
     cnty_nm : {Str(<<"S", "F">>)},
     population_num : {Num(800000)}]

RefFrames == UpToOne(RefRows) \cup Pairs(RefRows)

\* one year (also listed twice): all three files are there
OneYearMergeInputs ==
    {[years |-> ys,
      files |-> (AbsPath(Y2022) :> a) @@ (QcewPath(Y2022) :> q) @@ (RefPath :> r)] :
        ys \in {<<Y2022>>, <<Y2022, Y2022>>},
        a \in UpToOne(AbsExtractRows) \cup Pairs(AbsExtractNarrow),
        q \in UpToOne(QcewExtractRows) \cup Pairs(QcewExtractNarrow),
        r \in RefFrames}

\* two years: any of the files may be missing
AbsPaths == {AbsPath(Y2022), AbsPath(Y2023)}

QcewPaths == {QcewPath(Y2022), QcewPath(Y2023)}

TwoYearMergeInputs ==
    {[years |-> <<Y2022, Y2023>>, files |-> a @@ q @@ r] :
        a \in UNION { [present -> UpToOne(AbsExtractNarrow)] : present \in SUBSET AbsPaths },
        q \in UNION { [present -> UpToOne(QcewExtractNarrow)] : present \in SUBSET QcewPaths },
        r \in {NoFiles} \cup {(RefPath :> x) : x \in RefFrames}}

InitAssemble ==
    /\ prog = "assemble"
    /\ pc = "start"
    /\ result = NoResult
    /\ trace = <<>>
    /\ NoFrames
    /\ \E in \in OneYearMergeInputs \cup TwoYearMergeInputs :
          /\ args = [years |-> in.years]
          /\ fs = in.files

\* assemble(years, abs_pattern, qcew_pattern, ref_csv)
Assemble ==
    /\ prog = "assemble"
    /\ pc = "start"
    /\ result' = assemble(args.years, fs)
    /\ pc' = "done"
    /\ UNCHANGED <<prog, frames, args, fs, trace>>

NextMerge == Assemble

SpecMerge == InitAssemble /\ [][NextMerge]_vars

FilesThere ==
    /\ RefPath \in DOMAIN fs
    /\ \A i \in 1..Len(args.years) :
          AbsPath(args.years[i]) \in DOMAIN fs /\ QcewPath(args.years[i]) \in DOMAIN fs

\* C12: whenever the per-year ABS and QCEW extracts and the population
\* reference are there, assemble either returns a table in which no two rows
\* share (year_num, state_cnty_fips_cd, naics2_sector_cd) or raises
\* AssertionError; it never returns a table with a repeated key.
C12_MergedKeysUnique ==
    (prog = "assemble" /\ pc = "done") =>
        /\ result.status = "ok" =>
              \A i, j \in 1..Len(result.rows) :
                  ( /\ result.rows[i].year_num = result.rows[j].year_num
                    /\ result.rows[i].state_cnty_fips_cd = result.rows[j].state_cnty_fips_cd
                    /\ result.rows[i].naics2_sector_cd = result.rows[j].naics2_sector_cd )
                      => i = j
        /\ FilesThere => result.status \in {"ok", "AssertionError"}

\* extracts with one row each for the same key and a reference that lists the
\* county twice: the left merge doubles the row and the assertion fires
C12_Witness ==
    /\ prog = "assemble" /\ pc = "done"
    /\ result.status = "AssertionError"
    /\ args.years = <<Y2022>>
    /\ Len(fs[AbsPath(Y2022)]) = 1
    /\ Len(fs[QcewPath(Y2022)]) = 1
    /\ Len(fs[RefPath]) = 2
    /\ fs[RefPath][1].state_cnty_fips_cd = fs[AbsPath(Y2022)][1].state_cnty_fips_cd
    /\ fs[RefPath][2].state_cnty_fips_cd = fs[AbsPath(Y2022)][1].state_cnty_fips_cd

-----------------------------------------------------------------------------
\* qa/utils.py on Python values: None, a float NaN, a float infinity (n is
\* its sign) and finite numbers n / d.  (The reconciliations call safe_divide
\* on float cells of a row, where None does not occur: safe_divide above.)

PyNone == [t |-> "none", n |-> 0, d |-> 1]

PyNaN == [t |-> "nan", n |-> 0, d |-> 1]

PyInf(sign) == [t |-> "inf", n |-> sign, d |-> 1]

PyNum(n, d) == [t |-> "num", n |-> Rat(n, d).n, d |-> Rat(n, d).d]

Sign(x) == IF x < 0 THEN -1 ELSE 1

\* numerator / denominator of Python: ZeroDivisionError over a zero, the IEEE
\* results where a float NaN or infinity takes part
TrueDiv(a, b) ==
    IF b.t = "num" /\ b.n = 0
    THEN [status |-> "ZeroDivisionError", value |-> PyNone]
    ELSE IF a.t = "nan" \/ b.t = "nan" \/ (a.t = "inf" /\ b.t = "inf")
    THEN [status |-> "ok", value |-> PyNaN]
    ELSE IF a.t = "inf"
    THEN [status |-> "ok", value |-> PyInf(a.n * Sign(b.n))]
    ELSE IF b.t = "inf"
    THEN [status |-> "ok", value |-> PyNum(0, 1)]
    ELSE [status |-> "ok", value |-> PyNum(a.n * b.d, a.d * b.n)]

\* variant: the denominator is only tested for None
utils_safe_divide_zero_unchecked(numerator, denominator) ==
    IF numerator.t = "none" \/ denominator.t = "none"
    THEN [status |-> "ok", value |-> PyNone]
    ELSE IF denominator.t = "nan" THEN [status |-> "ok", value |-> PyNone]
    ELSE IF numerator.t = "nan" THEN [status |-> "ok", value |-> PyNone]
    ELSE TrueDiv(numerator, denominator)

\* qa.utils.safe_divide(numerator, denominator)
utils_safe_divide(numerator, denominator) ==
    IF \/ numerator.t = "none"
       \/ denominator.t = "none"
       \/ (denominator.t = "num" /\ denominator.n = 0)
    THEN [status |-> "ok", value |-> PyNone]
    ELSE IF denominator.t = "nan" THEN [status |-> "ok", value |-> PyNone]
    ELSE IF numerator.t = "nan" THEN [status |-> "ok", value |-> PyNone]
    ELSE TrueDiv(numerator, denominator)

\* Optional[bool | str]
PyStr(s) == [t |-> "str", b |-> FALSE, s |-> s]

PyBoolean(b) == [t |-> "bool", b |-> b, s |-> <<>>]

PyNoValue == [t |-> "none", b |-> FALSE, s |-> <<>>]

TRUE_STRINGS ==
    { <<"1">>, <<"t", "r", "u", "e">>, <<"t">>, <<"y", "e", "s">>, <<"y">> }

FALSE_STRINGS ==
    { <<"0">>, <<"f", "a", "l", "s", "e">>, <<"f">>, <<"n", "o">>, <<"n">> }

\* variant: the text is not lower-cased
parse_bool_case_sensitive(value, default) ==
    IF value.t = "none" THEN default
    ELSE IF value.t = "bool" THEN value.b
    ELSE LET normalized == Strip(value.s)
         IN  IF normalized \in TRUE_STRINGS THEN TRUE
             ELSE IF normalized \in FALSE_STRINGS THEN FALSE
             ELSE default

\* parse_bool(value, default)
parse_bool(value, default) ==
    IF value.t = "none" THEN default
    ELSE IF value.t = "bool" THEN value.b
    ELSE LET normalized == Lower(Strip(value.s))
         IN  IF normalized \in TRUE_STRINGS THEN TRUE
             ELSE IF normalized \in FALSE_STRINGS THEN FALSE
             ELSE default

\* Inputs: every pair of sample numbers, and the flag texts in several
\* spellings
SampleNumbers ==
    {PyNone, PyNaN, PyInf(1), PyInf(-1)}
        \cup {PyNum(n, d) : n \in {-3, -1, 0, 1, 2, 6}, d \in {1, 2}}

Capitalized(s) == IF s = <<>> THEN s ELSE Upper(<<Head(s)>>) \o Tail(s)

Spellings(s) == {s, Upper(s), Capitalized(s)}

Wrapped(s) == {s, <<" ">> \o s, s \o <<"\n">>, <<"\t", " ">> \o s \o <<" ", "\r">>}

OtherTexts ==
    { <<>>, <<"2">>, <<"o", "n">>, <<"o", "f", "f">>, <<"1", "0">>,
      <<"t", "r", "u">>, <<"y", " ", "e", "s">>, <<"n", "o", "n", "e">>,
      <<"t", "r", "u", "e", "!">> }

FlagTexts ==
    UNION { Wrapped(x) :
            x \in OtherTexts \cup UNION { Spellings(w) : w \in TRUE_STRINGS \cup FALSE_STRINGS } }

FlagValues ==
    {PyNoValue, PyBoolean(TRUE), PyBoolean(FALSE)} \cup {PyStr(s) : s \in FlagTexts}

InitSafeDivide ==
    /\ prog = "safe_divide"
    /\ \E numerator \in SampleNumbers, denominator \in SampleNumbers :
          args = [numerator |-> numerator, denominator |-> denominator]

InitParseBool ==
    /\ prog = "parse_bool"
    /\ \E value \in FlagValues, default \in BOOLEAN :
          args = [value |-> value, default |-> default]

InitUtils ==
    /\ pc = "start"
    /\ result = NoResult
    /\ fs = NoFiles
    /\ trace = <<>>
    /\ NoFrames
    /\ (InitSafeDivide \/ InitParseBool)

\* safe_divide(numerator, denominator)
SafeDivide ==
    /\ prog = "safe_divide"
    /\ pc = "start"
    /\ result' = utils_safe_divide(args.numerator, args.denominator)
    /\ pc' = "done"
    /\ UNCHANGED <<prog, frames, args, fs, trace>>

\* parse_bool(value, default)
ParseBool ==
    /\ prog = "parse_bool"
    /\ pc = "start"
    /\ result' = [status |-> "ok", value |-> parse_bool(args.value, args.default)]
    /\ pc' = "done"
    /\ UNCHANGED <<prog, frames, args, fs, trace>>

NextUtils == SafeDivide \/ ParseBool

SpecUtils == InitUtils /\ [][NextUtils]_vars

\* the cases in which C13 wants None
InvalidOperands ==
    \/ args.numerator.t \in {"none", "nan"}
    \/ args.denominator.t \in {"none", "nan"}
    \/ (args.denominator.t = "num" /\ args.denominator.n = 0)

\* value is the quotient of a by b, stated without dividing: for two finite
\* numbers by cross-multiplication, for infinities by the IEEE table
IsQuotient(value, a, b) ==
    IF a.t = "num" /\ b.t = "num"
    THEN value.t = "num" /\ value.n * b.n * a.d = a.n * b.d * value.d
    ELSE IF a.t = "inf" /\ b.t = "inf" THEN value.t = "nan"
    ELSE IF a.t = "inf"
    THEN value.t = "inf" /\ (value.n > 0 <=> ((a.n > 0) <=> (b.n > 0)))
    ELSE value.t = "num" /\ value.n = 0

\* C13: safe_divide never raises; it returns None exactly when the numerator
\* is None or NaN or the denominator is None, NaN or zero, and the quotient
\* numerator / denominator in every other case.
C13_SafeDivide ==
    (prog = "safe_divide" /\ pc = "done") =>
        /\ result.status = "ok"
        /\ IF InvalidOperands
           THEN result.value = PyNone
           ELSE IsQuotient(result.value, args.numerator, args.denominator)

\* a zero denominator under a number (None comes back), and a proper quotient
C13_Witness ==
    /\ prog = "safe_divide" /\ pc = "done"
    /\ args.numerator.t = "num" /\ args.numerator.n # 0
    /\ args.denominator.t = "num" /\ args.denominator.n = 0
    /\ result = [status |-> "ok", value |-> PyNone]

\* the letters of the flag words with their capitals
CasePairs ==
    { <<"t", "T">>, <<"r", "R">>, <<"u", "U">>, <<"e", "E">>, <<"y", "Y">>,
      <<"s", "S">>, <<"f", "F">>, <<"a", "A">>, <<"l", "L">>, <<"n", "N">>,
      <<"o", "O">> }

SameLetter(c, letter) == c = letter \/ <<letter, c>> \in CasePairs

Blank(c) == c \in {" ", "\t", "\n", "\r"}

\* text is word in some letter case between runs of whitespace
Spells(text, word) ==
    \E i \in 0..Len(text) :
        /\ i + Len(word) <= Len(text)
        /\ \A k \in 1..i : Blank(text[k])
        /\ \A k \in 1..Len(word) : SameLetter(text[i + k], word[k])
        /\ \A k \in (i + Len(word) + 1)..Len(text) : Blank(text[k])

SpellsTrue(text) ==
    \/ Spells(text, <<"1">>) \/ Spells(text, <<"t", "r", "u", "e">>)
    \/ Spells(text, <<"t">>) \/ Spells(text, <<"y", "e", "s">>)
    \/ Spells(text, <<"y">>)

SpellsFalse(text) ==
    \/ Spells(text, <<"0">>) \/ Spells(text, <<"f", "a", "l", "s", "e">>)
    \/ Spells(text, <<"f">>) \/ Spells(text, <<"n", "o">>)
    \/ Spells(text, <<"n">>)

\* C14: parse_bool gives True for 1, true, t, yes, y and False for 0, false,
\* f, no, n in any letter case and between any whitespace, gives a bool back
\* unchanged, and gives the default for None and for every other string.
C14_ParseBool ==
    (prog = "parse_bool" /\ pc = "done") =>
        /\ result.status = "ok"
        /\ result.value =
              IF args.value.t = "none" THEN args.default
              ELSE IF args.value.t = "bool" THEN args.value.b
              ELSE IF SpellsTrue(args.value.s) THEN TRUE
              ELSE IF SpellsFalse(args.value.s) THEN FALSE
              ELSE args.default

\* " YES " between whitespace with default False
C14_Witness ==
    /\ prog = "parse_bool" /\ pc = "done"
    /\ args.value.t = "str"
    /\ Len(args.value.s) > 3
    /\ Spells(args.value.s, <<"y", "e", "s">>)
    /\ args.value.s # Lower(args.value.s)
    /\ ~args.default
    /\ result.value = TRUE

-----------------------------------------------------------------------------
\* scripts/qcew/econ_bnchmrk_qcew.py: prepare_qcew_private, process_year,
\* run_batch

NUMERIC_PRECISION == 9

VALID_SECTORS ==
    { <<"1", "1">>, <<"2", "1">>, <<"2", "2">>, <<"2", "3">>,
      <<"3", "1", "-", "3", "3">>, <<"4", "2">>, <<"4", "4", "-", "4", "5">>,
      <<"4", "8", "-", "4", "9">>, <<"5", "1">>, <<"5", "2">>, <<"5", "3">>,
      <<"5", "4">>, <<"5", "5">>, <<"5", "6">>, <<"6", "1">>, <<"6", "2">>,
      <<"7", "1">>, <<"7", "2">>, <<"8", "1">>, <<"9", "2">> }

\* derive_naics2 on text (the column went through astype(str)): the sector
\* label, or <<>> where the code returns None
derive_naics2(code) ==
    LET cleaned == SelectSeq(Strip(code), IsDigit)
        base == SubSeq(cleaned, 1, 2)
    IN  IF Len(cleaned) < 2 THEN <<>>
        ELSE IF base \in {<<"3", "1">>, <<"3", "2">>, <<"3", "3">>}
        THEN <<"3", "1", "-", "3", "3">>
        ELSE IF base \in {<<"4", "4">>, <<"4", "5">>} THEN <<"4", "4", "-", "4", "5">>
        ELSE IF base \in {<<"4", "8">>, <<"4", "9">>} THEN <<"4", "8", "-", "4", "9">>
        ELSE IF base \in { <<"1", "1">>, <<"2", "1">>, <<"2", "2">>, <<"2", "3">>,
                           <<"4", "2">>, <<"5", "1">>, <<"5", "2">>, <<"5", "3">>,
                           <<"5", "4">>, <<"5", "5">>, <<"5", "6">>, <<"6", "1">>,
                           <<"6", "2">>, <<"7", "1">>, <<"7", "2">>, <<"8", "1">>,
                           <<"9", "2">> }
        THEN base
        ELSE <<>>

\* pd.to_numeric(errors="coerce") of a text cell: the number, NaN otherwise
to_numeric(cell) ==
    IF cell.t # "str" THEN NaN
    ELSE IF FloatOf(cell.s).ok THEN FloatOf(cell.s).val ELSE NaN

\* the "sum" of groupby.agg: NaN cells are skipped, no cell at all gives 0
RECURSIVE SumSkipNa(_)
SumSkipNa(cells) ==
    IF cells = <<>> THEN Num(0)
    ELSE LET rest == SumSkipNa(Tail(cells))
             c == Head(cells)
         IN  IF c.isna THEN rest ELSE Rat(c.n * rest.d + rest.n * c.d, c.d * rest.d)

RECURSIVE Pow10(_)
Pow10(k) == IF k = 0 THEN 1 ELSE 10 * Pow10(k - 1)

\* the integer part and the first k decimals of rem / d by long division
RECURSIVE Decimals(_, _, _, _)
Decimals(rem, d, k, acc) ==
    IF k = 0 THEN [q |-> acc, rem |-> rem]
    ELSE Decimals((rem * 10) % d, d, k - 1, acc * 10 + ((rem * 10) \div d))

\* variant: the value is left as it is
Round_none(x, places) == x

\* Series.round(places): to the nearest multiple of 10^-places, a tie to even
Round(x, places) ==
    IF x.isna THEN NaN
    ELSE LET dec == Decimals(x.n % x.d, x.d, places, x.n \div x.d)
             up == \/ 2 * dec.rem > x.d
                   \/ (2 * dec.rem = x.d /\ dec.q % 2 = 1)
         IN  Rat(dec.q + (IF up THEN 1 ELSE 0), Pow10(places))

\* the filters of prepare_qcew_private on one row of the normalized frame
\* (normalize_qcew_columns makes sure of the agg_lvl_cd column)
KeptPrivate(frame, year, row) ==
    /\ ToText(row.year_num) = NatToText(year)
    /\ frame.has_qtr => Upper(ToText(row.qtr)) = <<"A">>
    /\ frame.has_own => Strip(ToText(row.own_code)) = <<"5">>
    /\ Len(ZFill(ToText(row.state_cnty_fips_cd), FipsWidth)) = FipsWidth
    /\ ToText(row.agg_lvl_cd) = <<"7", "4">>
    /\ derive_naics2(Strip(ToText(row.indstr_cd))) \in VALID_SECTORS

\* a kept row with its derived columns and numeric cells
WorkingRow(year, row) ==
    LET fips == ZFill(ToText(row.state_cnty_fips_cd), FipsWidth)
    IN  [year_num |-> year,
         state_cnty_fips_cd |-> fips,
         naics2_sector_cd |-> derive_naics2(Strip(ToText(row.indstr_cd))),
         emp |-> to_numeric(row.qcew_ann_avg_emp_lvl_num),
         wages |-> to_numeric(row.qcew_ttl_ann_wage_usd_amt)]

\* one output row: the sums of a group and the recomputed weekly wage
GroupedRow(members) ==
    LET emp == SumSkipNa([i \in 1..Len(members) |-> members[i].emp])
        wages == SumSkipNa([i \in 1..Len(members) |-> members[i].wages])
        first == members[1]
    IN  [year_num |-> first.year_num,
         naics2_sector_cd |-> first.naics2_sector_cd,
         state_cnty_fips_cd |-> first.state_cnty_fips_cd,
         state_fips_cd |-> SubSeq(first.state_cnty_fips_cd, 1, 2),
         cnty_fips_cd |-> SubSeq(first.state_cnty_fips_cd, 3, FipsWidth),
         own_cd |-> <<"5">>,
         qcew_ann_avg_emp_lvl_num |-> emp,
         qcew_ttl_ann_wage_usd_amt |-> wages,
         qcew_avg_wkly_wage_usd_amt |->
             IF Positive(emp)
             THEN Round(Over(wages, Times(emp, Num(WeeksPerYear))), NUMERIC_PRECISION)
             ELSE NaN]

\* the first row of every key, in the order of the rows
KeyHeads(rows) ==
    LET first == {i \in 1..Len(rows) :
                     \A j \in 1..(i - 1) : MergeKey(rows[j]) # MergeKey(rows[i])}
        Pick(n) == CHOOSE i \in first : Cardinality({j \in first : j < i}) = n - 1
    IN  [n \in 1..Cardinality(first) |-> rows[Pick(n)]]

\* prepare_qcew_private(df, year): filter, group by the key columns (the
\* groups come out in key order), sum and recompute
prepare_qcew_private(frame, year) ==
    LET kept == SelectSeq(frame.rows, LAMBDA row : KeptPrivate(frame, year, row))
        working == [i \in 1..Len(kept) |-> WorkingRow(year, kept[i])]
        groups == SortByKey(KeyHeads(working))
    IN  [g \in 1..Len(groups) |->
            GroupedRow(SelectSeq(working, LAMBDA w : MergeKey(w) = MergeKey(groups[g])))]

\* process_year(year, raw_path) over the files
process_year(year, raw_path, files) ==
    IF ~Exists(files, raw_path)
    THEN [status |-> "FileNotFoundError", rows |-> <<>>]
    ELSE IF ~files[raw_path].columns_ok
    THEN [status |-> "ValueError", rows |-> <<>>]
    ELSE [status |-> "ok", rows |-> prepare_qcew_private(files[raw_path], year)]

SingleRawPath == [dir |-> "single_raw", name |-> 0]

RawTemplatePath(year) == [dir |-> "raw", name |-> year]

PerYearPath(year) == [dir |-> "per_year", name |-> year]

StackedOutPath == [dir |-> "stacked_out", name |-> 0]

\* variant: the combined file is written whatever the duplicate count
StackedOutcome_unchecked(combined) == "ok"

\* the duplicate check of the stacked frame
StackedOutcome(combined) ==
    IF duplicated_sum(combined) # 0 THEN "AssertionError" ELSE "ok"

\* run_batch(years, raw_template, per_year_pattern, stacked_out, single_raw)
\* over the files: the exception if any, and the files written, in order
run_batch(config, files) ==
    LET years == config.years
        RawOf(year) ==
            IF config.single_raw /\ Len(years) = 1 THEN SingleRawPath
            ELSE RawTemplatePath(year)
        yearly == [i \in 1..Len(years) |-> process_year(years[i], RawOf(years[i]), files)]
        failed == {i \in 1..Len(years) : yearly[i].status # "ok"}
        stop == IF failed = {} THEN Len(years) + 1
                ELSE CHOOSE i \in failed : \A j \in failed : i <= j
        per_year == [i \in 1..(stop - 1) |->
                        [path |-> PerYearPath(years[i]), rows |-> yearly[i].rows]]
        combined == Concat([i \in 1..Len(years) |-> yearly[i].rows])
    IN  IF failed # {}
        THEN [status |-> yearly[stop].status, written |-> per_year]
        ELSE IF ~config.stacked_out
        THEN [status |-> "ok", written |-> per_year]
        ELSE IF Len(years) = 0
        THEN [status |-> "ValueError", written |-> per_year]
        ELSE IF StackedOutcome(combined) # "ok"
        THEN [status |-> StackedOutcome(combined), written |-> per_year]
        ELSE [status |-> "ok",
              written |-> Append(per_year, [path |-> StackedOutPath, rows |-> combined])]

\* the file system after the writes, a later write of a path replacing an
\* earlier one
RECURSIVE WriteAll(_, _)
WriteAll(files, written) ==
    IF written = <<>> THEN files
    ELSE WriteAll((Head(written).path :> Head(written).rows) @@ files, Tail(written))

\* Inputs: normalized frames (the optional qtr and own_code columns there or
\* not) with one row that varies in the filtered cells, one row that varies
\* in the amounts, or two rows of a narrower product
RawFrame(has_qtr, has_own, rows) ==
    [columns_ok |-> TRUE, has_qtr |-> has_qtr, has_own |-> has_own,
     rows |-> [i \in 1..Len(rows) |->
                 [rows[i] EXCEPT !.qtr = IF has_qtr THEN @ ELSE NoneCell,
                                 !.own_code = IF has_own THEN @ ELSE NoneCell]]]

RawRowsByFilter ==
    [year_num : {T(Y2022), T(Y2023)},
     qtr : {Str(<<"A">>), Str(<<"1">>)},
     own_code : {Str(<<"5">>), Str(<<" ", "5", " ">>), Str(<<"1">>)},
     agg_lvl_cd : {Str(<<"7", "4">>), Str(<<"7", "5">>)},
     state_cnty_fips_cd : {Str(FIPS_SF), Str(<<"6", "0", "7", "5">>),
                           Str(<<"1", "2", "3", "4", "5", "6">>)},
     indstr_cd : {Str(SECTOR_42), Str(<<"3", "2", "5">>), Str(<<"3", "1", "-", "3", "3">>),
                  Str(<<"1", "0">>), Str(<<"4">>), NanCell},
     qcew_ann_avg_emp_lvl_num : {Str(<<"1">>)},
     qcew_ttl_ann_wage_usd_amt : {Str(<<"5", "2">>)}]

RawRowsByAmount ==
    [year_num : {T(Y2022)},
     qtr : {Str(<<"A">>)},
     own_code : {Str(<<"5">>)},
     agg_lvl_cd : {Str(<<"7", "4">>)},
     state_cnty_fips_cd : {Str(FIPS_SF)},
     indstr_cd : {Str(SECTOR_42)},
     qcew_ann_avg_emp_lvl_num :
        {Str(<<"0">>), Str(<<"1">>), Str(<<"3">>), Str(<<"(", "D", ")">>), NanCell},
     qcew_ttl_ann_wage_usd_amt :
        {Str(<<"0">>), Str(<<"1">>), Str(<<"5", "2">>), Str(<<"(", "D", ")">>)}]

RawRowsNarrow ==
    [year_num : {T(Y2022)},
     qtr : {Str(<<"A">>)},
     own_code : {Str(<<"5">>)},
     agg_lvl_cd : {Str(<<"7", "4">>)},
     state_cnty_fips_cd : {Str(FIPS_SF), Str(<<"6", "0", "7", "5">>), Str(FIPS_SC)},
     indstr_cd : {Str(SECTOR_42), Str(<<"4", "2", "3">>)},
     qcew_ann_avg_emp_lvl_num : {Str(<<"1">>), Str(<<"2">>)},
     qcew_ttl_ann_wage_usd_amt : {Str(<<"1">>), Str(<<"5", "2">>), Str(<<"(", "D", ")">>)}]

RawFrames ==
    {RawFrame(hq, ho, rows) :
        hq \in BOOLEAN, ho \in BOOLEAN,
        rows \in UpToOne(RawRowsByFilter) \cup UpToOne(RawRowsByAmount)
                    \cup Pairs(RawRowsNarrow)}

InitPrepareQcewPrivate ==
    /\ prog = "prepare_qcew_private"
    /\ fs = NoFiles
    /\ \E df \in RawFrames : args = [df |-> df, year |-> Y2022]

\* run_batch: the requested years, whether --out and --qcew_raw are given,
\* and any of the raw files on disk
BatchRow(year, fips) ==
    [year_num |-> T(year), qtr |-> Str(<<"A">>), own_code |-> Str(<<"5">>),
     agg_lvl_cd |-> Str(<<"7", "4">>), state_cnty_fips_cd |-> Str(fips),
     indstr_cd |-> Str(SECTOR_42), qcew_ann_avg_emp_lvl_num |-> Str(<<"1">>),
     qcew_ttl_ann_wage_usd_amt |-> Str(<<"5", "2">>)]

BatchFiles ==
    { BadColumnsFile,
      RawFrame(TRUE, TRUE, <<BatchRow(Y2022, FIPS_SF), BatchRow(Y2023, FIPS_SF)>>),
      RawFrame(TRUE, TRUE, <<BatchRow(Y2023, FIPS_SC)>>) }

BatchPaths == {SingleRawPath, RawTemplatePath(Y2022), RawTemplatePath(Y2023)}

BatchConfigs ==
    [years : {<<>>, <<Y2022>>, <<Y2022, Y2023>>, <<Y2022, Y2022>>},
     stacked_out : BOOLEAN,
     single_raw : BOOLEAN]

InitRunBatch ==
    /\ prog = "run_batch"
    /\ args \in BatchConfigs
    /\ fs \in UNION { [present -> BatchFiles] : present \in SUBSET BatchPaths }
    /\ args.single_raw => SingleRawPath \in DOMAIN fs

InitBatch ==
    /\ pc = "start"
    /\ result = NoResult
    /\ trace = <<>>
    /\ NoFrames
    /\ (InitPrepareQcewPrivate \/ InitRunBatch)

\* prepare_qcew_private(df, year)
PrepareQcewPrivate ==
    /\ prog = "prepare_qcew_private"
    /\ pc = "start"
    /\ result' = [status |-> "ok", rows |-> prepare_qcew_private(args.df, args.year)]
    /\ pc' = "done"
    /\ UNCHANGED <<prog, frames, args, fs, trace>>

\* run_batch(years, raw_template, per_year_pattern, stacked_out, single_raw)
RunBatch ==
    /\ prog = "run_batch"
    /\ pc = "start"
    /\ LET r == run_batch(args, fs)
       IN  /\ result' = [status |-> r.status, rows |-> <<>>]
           /\ trace' = r.written
           /\ fs' = WriteAll(fs, r.written)
    /\ pc' = "done"
    /\ UNCHANGED <<prog, frames, args>>

NextBatch == PrepareQcewPrivate \/ RunBatch

SpecBatch == InitBatch /\ [][NextBatch]_vars


\* What the sample cells mean, written out by hand.
\* the county of a FIPS cell: five characters after zero-padding, or none
CountyMeaning ==
    { <<Str(FIPS_SF), FIPS_SF>>, <<Str(<<"6", "0", "7", "5">>), FIPS_SF>>,
      <<Str(FIPS_SC), FIPS_SC>> }

\* the sector of an industry cell, where it is one of VALID_SECTORS
SectorMeaning ==
    { <<Str(SECTOR_42), SECTOR_42>>, <<Str(<<"4", "2", "3">>), SECTOR_42>>,
      <<Str(<<"3", "2", "5">>), <<"3", "1", "-", "3", "3">> >>,
      <<Str(<<"3", "1", "-", "3", "3">>), <<"3", "1", "-", "3", "3">> >> }

\* the amount in a numeric cell; a cell that is no number adds nothing
AmountMeaning ==
    { <<Str(<<"0">>), 0>>, <<Str(<<"1">>), 1>>, <<Str(<<"2">>), 2>>,
      <<Str(<<"3">>), 3>>, <<Str(<<"5", "2">>), 52>> }

Amount(cell) ==
    IF \E m \in AmountMeaning : m[1] = cell
    THEN (CHOOSE m \in AmountMeaning : m[1] = cell)[2]
    ELSE 0

\* the input rows prepare_qcew_private is to keep for a key: of the requested
\* year, private, at aggregation level 74 (and annual if there is a quarter
\* column), with the county and the sector of the key
KeptFor(county, sector) ==
    SelectSeq(args.df.rows,
              LAMBDA row :
                  /\ row.year_num = T(args.year)
                  /\ args.df.has_qtr => row.qtr = Str(<<"A">>)
                  /\ args.df.has_own => row.own_code \in {Str(<<"5">>), Str(<<" ", "5", " ">>)}
                  /\ row.agg_lvl_cd = Str(<<"7", "4">>)
                  /\ <<row.state_cnty_fips_cd, county>> \in CountyMeaning
                  /\ <<row.indstr_cd, sector>> \in SectorMeaning)

RECURSIVE TotalEmp(_)
TotalEmp(rows) ==
    IF rows = <<>> THEN 0
    ELSE Amount(Head(rows).qcew_ann_avg_emp_lvl_num) + TotalEmp(Tail(rows))

RECURSIVE TotalWages(_)
TotalWages(rows) ==
    IF rows = <<>> THEN 0
    ELSE Amount(Head(rows).qcew_ttl_ann_wage_usd_amt) + TotalWages(Tail(rows))

\* round(wages / (emp * 52), 9) in billionths for the totals of the sample
\* rows, as Python prints them
WeeklyWageBillionths ==
    { <<0, 1, 0>>, <<0, 2, 0>>, <<0, 3, 0>>, <<0, 4, 0>>,
      <<1, 1, 19230769>>, <<1, 2, 9615385>>, <<1, 3, 6410256>>, <<1, 4, 4807692>>,
      <<2, 2, 19230769>>, <<2, 3, 12820513>>, <<2, 4, 9615385>>,
      <<52, 1, 1000000000>>, <<52, 2, 500000000>>, <<52, 3, 333333333>>,
      <<52, 4, 250000000>>,
      <<53, 2, 509615385>>, <<53, 3, 339743590>>, <<53, 4, 254807692>>,
      <<104, 2, 1000000000>>, <<104, 3, 666666667>>, <<104, 4, 500000000>> }

RoundedWeeklyWage(wages, emp) ==
    Rat((CHOOSE m \in WeeklyWageBillionths : m[1] = wages /\ m[2] = emp)[3],
        1000000000)

SampleCounties == {FIPS_SF, FIPS_SC}

SampleSectors == {SECTOR_42, <<"3", "1", "-", "3", "3">>}

\* one output row per key that has kept rows and none for any other key, with
\* the totals of the kept rows
PreparedKeysAndSums ==
    /\ \A i \in 1..Len(result.rows) :
          /\ result.rows[i].year_num = args.year
          /\ result.rows[i].own_cd = <<"5">>
          /\ result.rows[i].state_cnty_fips_cd \in SampleCounties
          /\ result.rows[i].naics2_sector_cd \in SampleSectors
    /\ \A county \in SampleCounties, sector \in SampleSectors :
          LET kept == KeptFor(county, sector)
              out == {i \in 1..Len(result.rows) :
                         /\ result.rows[i].state_cnty_fips_cd = county
                         /\ result.rows[i].naics2_sector_cd = sector}
          IN  /\ Cardinality(out) = IF kept = <<>> THEN 0 ELSE 1
              /\ \A i \in out :
                    /\ result.rows[i].qcew_ann_avg_emp_lvl_num = Num(TotalEmp(kept))
                    /\ result.rows[i].qcew_ttl_ann_wage_usd_amt = Num(TotalWages(kept))

\* the kept rows of an output row
KeptOf(row) == KeptFor(row.state_cnty_fips_cd, row.naics2_sector_cd)

\* C15 as stated: prepare_qcew_private returns exactly one row per (year,
\* county FIPS, sector) that has kept rows (requested year, ownership 5,
\* aggregation level 74, 5-character FIPS, valid sector), its employment and
\* wages are the sums over those rows, and its average weekly wage is exactly
\* wages / (employment x 52) when employment is positive and absent otherwise.
C15_PreparedExactWage ==
    Returned("prepare_qcew_private") =>
        /\ PreparedKeysAndSums
        /\ \A i \in 1..Len(result.rows) :
              LET emp == TotalEmp(KeptOf(result.rows[i]))
                  wages == TotalWages(KeptOf(result.rows[i]))
              IN  result.rows[i].qcew_avg_wkly_wage_usd_amt =
                      IF emp > 0 THEN Rat(wages, emp * 52) ELSE NaN

\* C15 amended: as above, with the average weekly wage being
\* wages / (employment x 52) rounded to 9 decimal places.
C15_PreparedRoundedWage ==
    Returned("prepare_qcew_private") =>
        /\ PreparedKeysAndSums
        /\ \A i \in 1..Len(result.rows) :
              LET emp == TotalEmp(KeptOf(result.rows[i]))
                  wages == TotalWages(KeptOf(result.rows[i]))
              IN  result.rows[i].qcew_avg_wkly_wage_usd_amt =
                      IF emp > 0 THEN RoundedWeeklyWage(wages, emp) ELSE NaN

\* two rows of one county and sector (the county with and without its
\* leading zero, the industry as 42 and 423) summed into one row: employment
\* 3, wages 53, weekly wage 0.33974359
C15_Witness ==
    /\ Returned("prepare_qcew_private")
    /\ Len(args.df.rows) = 2
    /\ args.df.rows[1].state_cnty_fips_cd # args.df.rows[2].state_cnty_fips_cd
    /\ args.df.rows[1].indstr_cd # args.df.rows[2].indstr_cd
    /\ Len(result.rows) = 1
    /\ result.rows[1].qcew_ann_avg_emp_lvl_num = Num(3)
    /\ result.rows[1].qcew_ttl_ann_wage_usd_amt = Num(53)
    /\ result.rows[1].qcew_avg_wkly_wage_usd_amt = Rat(33974359, 100000000)

\* the per-year outputs run_batch wrote, stacked in the order of the years
PerYearWrites == SelectSeq(trace, LAMBDA w : w.path.dir = "per_year")

StackedRows == Concat([i \in 1..Len(PerYearWrites) |-> PerYearWrites[i].rows])

RepeatedKey(rows) ==
    \E i, j \in 1..Len(rows) :
        /\ i # j
        /\ rows[i].year_num = rows[j].year_num
        /\ rows[i].state_cnty_fips_cd = rows[j].state_cnty_fips_cd
        /\ rows[i].naics2_sector_cd = rows[j].naics2_sector_cd

StackedWritten == \E i \in 1..Len(trace) : trace[i].path.dir = "stacked_out"

\* C16: when run_batch has produced every year's output and stacks them
\* (--out is given), two stacked rows with the same (year_num,
\* state_cnty_fips_cd, naics2_sector_cd) make it raise AssertionError without
\* writing the combined file; a combined file that is written has no repeated
\* key.
C16_DuplicatesFatal ==
    (prog = "run_batch" /\ pc = "done") =>
        /\ ( /\ args.stacked_out
             /\ Len(PerYearWrites) = Len(args.years)
             /\ RepeatedKey(StackedRows) )
              => (result.status = "AssertionError" /\ ~StackedWritten)
        /\ result.status = "AssertionError" => RepeatedKey(StackedRows)
        /\ StackedWritten => ~RepeatedKey(fs[[dir |-> "stacked_out", name |-> 0]])

\* the same year listed twice: both passes write the year's rows, the
\* stacked frame repeats them and nothing is written to --out
C16_Witness ==
    /\ prog = "run_batch" /\ pc = "done"
    /\ Len(args.years) = 2
    /\ Len(PerYearWrites) = 2
    /\ RepeatedKey(StackedRows)
    /\ result.status = "AssertionError"
    /\ ~StackedWritten

-----------------------------------------------------------------------------
\* qa/national_totals_snapshot.py: build_yoy_table

\* pd.NA, the missing marker of a nullable integer column
PyNA == [t |-> "na", n |-> 0, d |-> 1]

\* the totals columns in the order of the dict literal, and the percentage
\* columns made of them
TOTAL_COLUMNS ==
    <<"abs_receipts_usd_natl", "abs_payroll_usd_natl", "abs_emp_natl",
      "abs_firms_natl", "qcew_emp_natl", "qcew_wages_usd_natl">>

YOY_COLUMNS ==
    <<"yoy_abs_receipts_pct", "yoy_abs_payroll_pct", "yoy_abs_emp_pct",
      "yoy_abs_firms_pct", "yoy_qcew_emp_pct", "yoy_qcew_wages_pct">>

\* _to_decimal: None stays None, a number becomes its Decimal, a float NaN the
\* Decimal NaN; Decimal(str(pd.NA)) raises and gives None
to_decimal(value) ==
    IF value.t \in {"none", "na"} THEN PyNone ELSE value

\* a - b on Optional[Decimal]: TypeError with None on either side, the quiet
\* NaN propagates
DecimalMinus(a, b) ==
    IF a.t = "none" \/ b.t = "none" THEN [status |-> "TypeError", value |-> PyNone]
    ELSE IF a.t = "nan" \/ b.t = "nan" THEN [status |-> "ok", value |-> PyNaN]
    ELSE [status |-> "ok", value |-> PyNum(a.n * b.d - b.n * a.d, a.d * b.d)]

\* safe_divide of national_totals_snapshot: float(numerator / denominator), or
\* None (a Decimal NaN is not equal to 0)
snapshot_safe_divide(numerator, denominator) ==
    IF numerator.t = "none" \/ denominator.t = "none" THEN PyNone
    ELSE IF denominator.t = "num" /\ denominator.n = 0 THEN PyNone
    ELSE TrueDiv(numerator, denominator).value

\* one percentage of one pair of records: the subtraction comes first
YoyPct(cur, prev) ==
    LET diff == DecimalMinus(to_decimal(cur), to_decimal(prev))
    IN  IF diff.status # "ok" THEN [status |-> diff.status, value |-> PyNone]
        ELSE [status |-> "ok",
              value |-> snapshot_safe_divide(diff.value, to_decimal(prev))]

\* df.sort_values("year_num").to_dict(orient="records")
RECURSIVE InsertByYear(_, _)
InsertByYear(sorted, row) ==
    IF sorted = <<>> THEN <<row>>
    ELSE IF row.year_num < Head(sorted).year_num THEN <<row>> \o sorted
    ELSE <<Head(sorted)>> \o InsertByYear(Tail(sorted), row)

RECURSIVE SortByYear(_)
SortByYear(rows) ==
    IF rows = <<>> THEN <<>>
    ELSE InsertByYear(SortByYear(SubSeq(rows, 1, Len(rows) - 1)), rows[Len(rows)])

\* the record a record is compared with
PreviousIndex(idx) == idx - 1

\* build_yoy_table(df)
build_yoy_table(df) ==
    LET records == SortByYear(df)
        Pct(idx, c) == YoyPct(records[idx][TOTAL_COLUMNS[c]],
                              records[PreviousIndex(idx)][TOTAL_COLUMNS[c]])
        raised == \E idx \in 2..Len(records), c \in 1..Len(TOTAL_COLUMNS) :
                      Pct(idx, c).status # "ok"
    IN  IF raised THEN [status |-> "TypeError", rows |-> <<>>]
        ELSE [status |-> "ok",
              rows |-> [k \in 1..(IF Len(records) = 0 THEN 0 ELSE Len(records) - 1) |->
                          [year_num |-> records[k + 1].year_num,
                           pct |-> [c \in 1..Len(YOY_COLUMNS) |-> Pct(k + 1, c).value]]]]

\* Inputs: totals of up to three years in any order; the first two totals
\* columns vary, the other four hold a plain number
Y2021 == 2021

SnapshotYears == {Y2021, Y2022, Y2023}

YearOrders ==
    {<<>>} \cup {<<a>> : a \in SnapshotYears}
           \cup {ys \in SnapshotYears \X SnapshotYears : ys[1] # ys[2]}
           \cup {ys \in [1..3 -> SnapshotYears] : Cardinality({ys[i] : i \in 1..3}) = 3}

ReceiptTotals == {PyNone, PyNaN, PyNA, PyNum(0, 1), PyNum(100, 1), PyNum(110, 1)}

PayrollTotals == {PyNone, PyNum(50, 1)}

TotalsRecord(year, receipts, payroll) ==
    [year_num |-> year,
     abs_receipts_usd_natl |-> receipts,
     abs_payroll_usd_natl |-> payroll,
     abs_emp_natl |-> PyNum(100, 1),
     abs_firms_natl |-> PyNum(10, 1),
     qcew_emp_natl |-> PyNum(0, 1),
     qcew_wages_usd_natl |-> PyNum(3, 1)]

TotalsFrame(ys, rs, ps) == [i \in 1..Len(ys) |-> TotalsRecord(ys[i], rs[i], ps[i])]

InitSnapshot ==
    /\ prog = "build_yoy_table"
    /\ pc = "start"
    /\ result = NoResult
    /\ fs = NoFiles
    /\ trace = <<>>
    /\ NoFrames
    /\ \E ys \in YearOrders :
          \E rs \in [1..Len(ys) -> ReceiptTotals], ps \in [1..Len(ys) -> PayrollTotals] :
              args = [df |-> TotalsFrame(ys, rs, ps)]

\* build_yoy_table(df)
BuildYoyTable ==
    /\ prog = "build_yoy_table"
    /\ pc = "start"
    /\ result' = build_yoy_table(args.df)
    /\ pc' = "done"
    /\ UNCHANGED <<prog, frames, args, fs, trace>>

NextSnapshot == BuildYoyTable

SpecSnapshot == InitSnapshot /\ [][NextSnapshot]_vars

\* the totals record of a year
TotalsOf(year) == args.df[CHOOSE i \in 1..Len(args.df) : args.df[i].year_num = year]

\* the years of the totals below a year
EarlierYears(year) == {args.df[i].year_num : i \in 1..Len(args.df)} \cap (0..(year - 1))

Latest(years) == CHOOSE y \in years : \A z \in years : z <= y

MissingTotal(cell) == cell.t \in {"none", "nan", "na"}

\* C17: build_yoy_table returns, for totals of N years, N - 1 rows in
\* ascending year order, the row of a year comparing it with the closest
\* earlier year: each percentage is (current - previous) / previous, and it is
\* missing (None or NaN), with no error raised, when the previous total is
\* zero or either total is missing.
C17_YoyTable ==
    (prog = "build_yoy_table" /\ pc = "done" /\ Len(args.df) >= 1) =>
        /\ result.status = "ok"
        /\ Len(result.rows) = Len(args.df) - 1
        /\ \A k \in 1..(Len(result.rows) - 1) :
              result.rows[k].year_num < result.rows[k + 1].year_num
        /\ \A k \in 1..Len(result.rows) :
              /\ EarlierYears(result.rows[k].year_num) # {}
              /\ \A c \in 1..Len(TOTAL_COLUMNS) :
                    LET cur == TotalsOf(result.rows[k].year_num)[TOTAL_COLUMNS[c]]
                        prev == TotalsOf(Latest(EarlierYears(result.rows[k].year_num)))
                                    [TOTAL_COLUMNS[c]]
                        pct == result.rows[k].pct[c]
                    IN  IF MissingTotal(cur) \/ MissingTotal(prev) \/ prev.n = 0
                        THEN pct.t \in {"none", "nan"}
                        ELSE /\ pct.t = "num"
                             /\ pct.n * prev.n * cur.d * prev.d
                                    = (cur.n * prev.d - prev.n * cur.d) * prev.d * pct.d


-----------------------------------------------------------------------------
\* scripts/epa/tri_epa_pipeline.py: normalize_row, read_tri_1a

\* the byte-order mark that lstrip("\ufeff") removes, as one character
BOM == "\\ufeff"

\* the prefix of the trailer line of an export
TOTAL_OUTPUT_LINES == <<"t", "o", "t", "a", "l", " ", "o", "u", "t", "p", "u", "t", " ", "l", "i", "n", "e", "s">>

\* raw_line.lstrip("\ufeff")
RECURSIVE LStripBom(_)
LStripBom(s) == IF s # <<>> /\ Head(s) = BOM THEN LStripBom(Tail(s)) ELSE s

\* s.rstrip("\r\n")
RECURSIVE RStripNewline(_)
RStripNewline(s) ==
    IF s # <<>> /\ s[Len(s)] \in {"\r", "\n"}
    THEN RStripNewline(SubSeq(s, 1, Len(s) - 1))
    ELSE s

\* s.split("\t"): the pieces between the tabs, one piece for a text without
\* a tab, the empty text included
RECURSIVE SplitTab(_, _)
SplitTab(s, piece) ==
    IF s = <<>> THEN <<piece>>
    ELSE IF Head(s) = "\t" THEN <<piece>> \o SplitTab(Tail(s), <<>>)
    ELSE SplitTab(Tail(s), Append(piece, Head(s)))

\* "\t".join(fields)
RECURSIVE TabJoin(_)
TabJoin(fields) ==
    IF fields = <<>> THEN <<>>
    ELSE IF Len(fields) = 1 THEN fields[1]
    ELSE fields[1] \o <<"\t">> \o TabJoin(Tail(fields))

\* str.isdigit(): at least one character and only digits
isdigit(s) == s # <<>> /\ \A i \in 1..Len(s) : IsDigit(s[i])

\* the position a slice bound k stands for in a list of n items
SliceBound(n, k) ==
    IF k < 0 THEN (IF n + k < 0 THEN 0 ELSE n + k)
    ELSE IF k > n THEN n ELSE k

\* fields[:k] and fields[k:]
SliceTo(fields, k) == SubSeq(fields, 1, SliceBound(Len(fields), k))

SliceFrom(fields, k) == SubSeq(fields, SliceBound(Len(fields), k) + 1, Len(fields))

\* normalize_row(fields, width)
normalize_row(fields, width) ==
    IF Len(fields) < width
    THEN fields \o [i \in 1..(width - Len(fields)) |-> <<>>]
    ELSE IF Len(fields) > width
    THEN SliceTo(fields, width - 1) \o <<TabJoin(SliceFrom(fields, width - 1))>>
    ELSE fields

\* line.split("\t") without a last column that is empty or all digits
HeaderCols(line) ==
    LET cols == SplitTab(line, <<>>)
    IN  IF cols # <<>> /\ (cols[Len(cols)] = <<>> \/ isdigit(cols[Len(cols)]))
        THEN SliceTo(cols, -1)
        ELSE cols

\* the record csv.reader makes of one line that holds no quote character and
\* no backslash: nothing for an empty line, else the pieces between the tabs
CsvRecord(raw_line) ==
    LET line == RStripNewline(raw_line)
    IN  IF line = <<>> THEN <<>> ELSE SplitTab(line, <<>>)

\* the lines the outer loop passes over: empty ones and trailer lines
SkippedLine(raw_line) ==
    LET line == RStripNewline(LStripBom(raw_line))
    IN  line = <<>> \/ StartsWith(Lower(line), TOTAL_OUTPUT_LINES)

\* the records the inner loop keeps, normalised to the width of the header
RECURSIVE NormalizedRecords(_, _)
NormalizedRecords(lines, width) ==
    IF lines = <<>> THEN <<>>
    ELSE LET record == CsvRecord(Head(lines))
             rest == NormalizedRecords(Tail(lines), width)
         IN  IF record = <<>> THEN rest
             ELSE IF StartsWith(Lower(record[1]), TOTAL_OUTPUT_LINES) THEN rest
             ELSE <<normalize_row(record, width)>> \o rest

\* the columns that df.loc[:, ~fullmatch("Unnamed:.*|^$")] keeps
KeptColumns(header_cols) ==
    {i \in 1..Len(header_cols) :
        /\ header_cols[i] # <<>>
        /\ ~StartsWith(header_cols[i], <<"U", "n", "n", "a", "m", "e", "d", ":">>)}

\* the items of a list at the chosen positions, in their order
RECURSIVE Pick(_, _, _)
Pick(items, keep, i) ==
    IF i > Len(items) THEN <<>>
    ELSE (IF i \in keep THEN <<items[i]>> ELSE <<>>) \o Pick(items, keep, i + 1)

\* read_tri_1a(tri_path); pd.DataFrame(rows, columns=header_cols) raises
\* ValueError when a row does not have as many cells as there are columns
read_tri_1a(tri_path, files) ==
    IF ~Exists(files, tri_path)
    THEN [status |-> "FileNotFoundError", columns |-> <<>>, rows |-> <<>>, width |-> 0]
    ELSE
    LET lines == files[tri_path]
        found == {i \in 1..Len(lines) : ~SkippedLine(lines[i])}
    IN  IF found = {}
        THEN [status |-> "ValueError", columns |-> <<>>, rows |-> <<>>, width |-> 0]
        ELSE
        LET first == CHOOSE i \in found : \A j \in found : i <= j
            header_cols == HeaderCols(RStripNewline(LStripBom(lines[first])))
            width == Len(header_cols)
            rows == NormalizedRecords(SubSeq(lines, first + 1, Len(lines)), width)
            keep == KeptColumns(header_cols)
        IN  IF \E r \in 1..Len(rows) : Len(rows[r]) # width
            THEN [status |-> "ValueError", columns |-> header_cols,
                  rows |-> rows, width |-> width]
            ELSE [status |-> "ok", columns |-> Pick(header_cols, keep, 1),
                  rows |-> [r \in 1..Len(rows) |-> Pick(rows[r], keep, 1)],
                  width |-> width]

\* ---- sample inputs ----

\* the texts of the fields of a sample row
FieldTexts == {<<>>, <<"x">>, <<"y">>, <<"x", "\t", "y">>}

\* rows of no field up to three fields
FieldLists == UNION {[1..n -> FieldTexts] : n \in 0..3}

\* widths from none up to one more than the longest row
Widths == 0..4

\* the place of the export
TriPath == [dir |-> "tri", name |-> 0]

\* header lines: plain, with an empty last column, with a count as last
\* column, with an unnamed column, and one that is a count only
HeaderLines ==
    {<<"A", "\t", "B", "\n">>,
     <<"A", "\t", "B", "\t", "\r", "\n">>,
     <<"A", "\t", "B", "\t", "3", "\n">>,
     <<"A", "\t", "U", "n", "n", "a", "m", "e", "d", ":", " ", "1", "\t", "B", "\n">>,
     <<"2", "0", "2", "2", "\n">>}

\* lines that come before the header
PrefaceLines == {<<"\n">>, <<"T", "o", "t", "a", "l", " ", "O", "u", "t", "p", "u", "t", " ", "L", "i", "n", "e", "s", ":", " ", "2", "\n">>, <<"\r", "\n">>}

\* lines after the header
RecordLines ==
    {<<"x", "\t", "y", "\n">>,
     <<"x", "\n">>,
     <<"x", "\t", "y", "\t", "z", "\n">>,
     <<"\n">>,
     <<"T", "O", "T", "A", "L", " ", "O", "U", "T", "P", "U", "T", " ", "L", "I", "N", "E", "S", ":", " ", "1", "\n">>}

TriFiles ==
    {<<>>, <<<<"\n">>>>}
    \cup {pre \o <<h>> \o recs :
            pre \in {<<>>} \cup {<<p>> : p \in PrefaceLines},
            h \in HeaderLines,
            recs \in UNION {[1..n -> RecordLines] : n \in 0..2}}

InitNormalizeRow ==
    /\ prog = "normalize_row"
    /\ pc = "start"
    /\ result = NoResult
    /\ fs = NoFiles
    /\ trace = <<>>
    /\ NoFrames
    /\ \E fields \in FieldLists, width \in Widths :
          args = [fields |-> fields, width |-> width]

InitReadTri1a ==
    /\ prog = "read_tri_1a"
    /\ pc = "start"
    /\ result = NoResult
    /\ trace = <<>>
    /\ NoFrames
    /\ args = [tri_path |-> TriPath]
    /\ \/ fs = NoFiles
       \/ \E file \in TriFiles : fs = [p \in {TriPath} |-> file]

InitTri == InitNormalizeRow \/ InitReadTri1a

\* normalize_row(fields, width)
NormalizeRow ==
    /\ prog = "normalize_row"
    /\ pc = "start"
    /\ result' = [status |-> "ok", rows |-> normalize_row(args.fields, args.width)]
    /\ pc' = "done"
    /\ UNCHANGED <<prog, frames, args, fs, trace>>

\* read_tri_1a(tri_path)
ReadTri1a ==
    /\ prog = "read_tri_1a"
    /\ pc = "start"
    /\ result' = read_tri_1a(args.tri_path, fs)
    /\ pc' = "done"
    /\ UNCHANGED <<prog, frames, args, fs, trace>>

NextTri == NormalizeRow \/ ReadTri1a

SpecTri == InitTri /\ [][NextTri]_vars


\* ---- properties of normalize_row ----

\* k tab characters
Tabs(k) == [i \in 1..k |-> "\t"]

\* the row a finished call of normalize_row returned
Normalized == prog = "normalize_row" /\ pc = "done"

\* the result has exactly width fields
ExactWidth == Len(result.rows) = args.width

\* a short row comes back with empty texts added on the right
PaddedRight ==
    Len(args.fields) < args.width =>
        /\ SubSeq(result.rows, 1, Len(args.fields)) = args.fields
        /\ \A i \in (Len(args.fields) + 1)..Len(result.rows) : result.rows[i] = <<>>

\* a long row keeps its first fields and has the others, tab-joined, as last
GluedLast ==
    Len(args.fields) > args.width =>
        /\ result.rows # <<>>
        /\ \A i \in 1..(Len(result.rows) - 1) : result.rows[i] = args.fields[i]
        /\ result.rows[Len(result.rows)] =
               TabJoin(SubSeq(args.fields, Len(result.rows), Len(args.fields)))

\* the joined result is the joined input followed by tabs only
NothingLost ==
    \E k \in 0..args.width :
        TabJoin(result.rows) = TabJoin(args.fields) \o Tabs(k)

\* C18: normalize_row returns exactly width fields for every list of fields
\* and every width; a short row is padded on the right with empty texts, a
\* long row has its overflow glued into the last field, and the tab-joined
\* result is the tab-joined input followed only by padding separators.
C18_NormalizeRow ==
    Normalized => ExactWidth /\ PaddedRight /\ GluedLast /\ NothingLost


-----------------------------------------------------------------------------
\* qa/reconciliation.py: main, the combined runner

\* the mode that is not the standard one, and the two system names
ABS_FULL_SURFACE == <<"a", "b", "s", "_", "f", "u", "l", "l", "_", "s", "u", "r", "f", "a", "c", "e">>

SYSTEM_ABS == <<"a", "b", "s">>

SYSTEM_QCEW == <<"q", "c", "e", "w">>

\* no frame (None), and the frame a reconciliation returned, tagged with its
\* source system
NoFrame == [none |-> TRUE, rows |-> <<>>]

Frame(system, n) == [none |-> FALSE, rows |-> [i \in 1..n |-> [source_system |-> system]]]

\* [s.lower() for s in args.systems]
LowerAll(systems) == [i \in 1..Len(systems) |-> Lower(systems[i])]

\* "abs" in systems
InSystems(name, systems) == \E i \in 1..Len(systems) : systems[i] = name

\* the frame that is written as the combined CSV (the mutant needs both)
Combined_both_required(abs_df, qcew_df) ==
    IF ~abs_df.none /\ ~qcew_df.none
    THEN [none |-> FALSE, rows |-> abs_df.rows \o qcew_df.rows]
    ELSE NoFrame

Combined(abs_df, qcew_df) ==
    IF ~abs_df.none /\ ~qcew_df.none
    THEN [none |-> FALSE, rows |-> abs_df.rows \o qcew_df.rows]
    ELSE IF ~abs_df.none THEN abs_df
    ELSE IF ~qcew_df.none THEN qcew_df
    ELSE NoFrame

\* the local variables of main after the arguments are read
MainLocals(a) ==
    [status |-> "running",
     mode |-> Lower(a.mode),
     systems |-> LowerAll(a.systems),
     publish_bq |-> parse_bool(PyStr(a.publish_bq), FALSE),
     abs_df |-> NoFrame,
     qcew_df |-> NoFrame]

\* ---- sample inputs ----

\* values of --mode: the default, the full surface in two spellings, and a
\* word that names no mode
ModeTexts == {<<"s", "t", "a", "n", "d", "a", "r", "d">>, <<"a", "b", "s", "_", "f", "u", "l", "l", "_", "s", "u", "r", "f", "a", "c", "e">>, <<"A", "B", "S", "_", "F", "u", "l", "l", "_", "S", "u", "r", "f", "a", "c", "e">>, <<"f", "u", "l", "l">>}

\* values of --systems (nargs="+"): one or two names out of the two systems,
\* one of them in capitals too, and a name of no system
SystemTexts == {<<"a", "b", "s">>, <<"q", "c", "e", "w">>, <<"A", "B", "S">>, <<"t", "r", "i">>}

SystemLists == UNION {[1..n -> SystemTexts] : n \in 1..2}

\* values of --publish_bq
PublishTexts == {<<"f", "a", "l", "s", "e">>, <<"T", "R", "U", "E">>}

\* the number of rows a reconciliation returns in the samples
FrameSizes == {0, 1}

\* how a call that reads data or publishes ends
Outcomes == {"ok", "raise"}

InitMain ==
    /\ prog = "main"
    /\ pc = "start"
    /\ result = NoResult
    /\ fs = NoFiles
    /\ trace = <<>>
    /\ NoFrames
    /\ \E mode \in ModeTexts, systems \in SystemLists, publish_bq \in PublishTexts :
          args = [mode |-> mode, systems |-> systems, publish_bq |-> publish_bq]

\* parse_args up to the branch on the mode
MainParseArgs ==
    /\ prog = "main"
    /\ pc = "start"
    /\ result' = MainLocals(args)
    /\ pc' = IF Lower(args.mode) = ABS_FULL_SURFACE THEN "abs_full" ELSE "abs"
    /\ UNCHANGED <<prog, frames, args, fs, trace>>

\* abs_df = run_abs_full_surface(args.years); an exception is logged and
\* raised again
MainRunAbsFullSurface ==
    /\ prog = "main"
    /\ pc = "abs_full"
    /\ trace' = Append(trace, "run_abs_full_surface")
    /\ \E outcome \in Outcomes, n \in FrameSizes :
          IF outcome = "ok"
          THEN /\ result' = [result EXCEPT !.abs_df = Frame("abs", n)]
               /\ pc' = "write_full"
          ELSE /\ n = 0
               /\ result' = [result EXCEPT !.status = "raised"]
               /\ pc' = "raised"
    /\ UNCHANGED <<prog, frames, args, fs>>

\* write_abs_outputs_full(abs_df, outdir, publish_bq, bq_table), then return
MainWriteAbsOutputsFull ==
    /\ prog = "main"
    /\ pc = "write_full"
    /\ trace' = Append(trace, "write_abs_outputs_full")
    /\ \E outcome \in Outcomes :
          IF outcome = "ok"
          THEN /\ result' = [result EXCEPT !.status = "ok"]
               /\ pc' = "done"
          ELSE /\ result.publish_bq
               /\ result' = [result EXCEPT !.status = "raised"]
               /\ pc' = "raised"
    /\ UNCHANGED <<prog, frames, args, fs>>

\* if "abs" in systems: abs_df = run_abs(abs_config)
MainRunAbs ==
    /\ prog = "main"
    /\ pc = "abs"
    /\ InSystems(SYSTEM_ABS, result.systems)
    /\ trace' = Append(trace, "run_abs")
    /\ \E outcome \in Outcomes, n \in FrameSizes :
          IF outcome = "ok"
          THEN /\ result' = [result EXCEPT !.abs_df = Frame("abs", n)]
               /\ pc' = "qcew"
          ELSE /\ n = 0
               /\ result' = [result EXCEPT !.status = "raised"]
               /\ pc' = "raised"
    /\ UNCHANGED <<prog, frames, args, fs>>

\* "abs" is not in systems
MainSkipAbs ==
    /\ prog = "main"
    /\ pc = "abs"
    /\ ~InSystems(SYSTEM_ABS, result.systems)
    /\ pc' = "qcew"
    /\ UNCHANGED <<prog, frames, args, fs, trace, result>>

\* if "qcew" in systems: qcew_df = run_qcew(qcew_config)
MainRunQcew ==
    /\ prog = "main"
    /\ pc = "qcew"
    /\ InSystems(SYSTEM_QCEW, result.systems)
    /\ trace' = Append(trace, "run_qcew")
    /\ \E outcome \in Outcomes, n \in FrameSizes :
          IF outcome = "ok"
          THEN /\ result' = [result EXCEPT !.qcew_df = Frame("qcew", n)]
               /\ pc' = "combine"
          ELSE /\ n = 0
               /\ result' = [result EXCEPT !.status = "raised"]
               /\ pc' = "raised"
    /\ UNCHANGED <<prog, frames, args, fs>>

\* "qcew" is not in systems
MainSkipQcew ==
    /\ prog = "main"
    /\ pc = "qcew"
    /\ ~InSystems(SYSTEM_QCEW, result.systems)
    /\ pc' = "combine"
    /\ UNCHANGED <<prog, frames, args, fs, trace, result>>

\* combined.to_csv(combined_path) if combined is not None
MainWriteCombined ==
    /\ prog = "main"
    /\ pc = "combine"
    /\ trace' = IF Combined(result.abs_df, result.qcew_df).none
                THEN trace
                ELSE Append(trace, "write_combined")
    /\ pc' = "summary"
    /\ UNCHANGED <<prog, frames, args, fs, result>>

\* write_summary(outdir, abs_df, qcew_df), the last statement of main
MainWriteSummary ==
    /\ prog = "main"
    /\ pc = "summary"
    /\ trace' = Append(trace, "write_summary")
    /\ result' = [result EXCEPT !.status = "ok"]
    /\ pc' = "done"
    /\ UNCHANGED <<prog, frames, args, fs>>

NextMain ==
    \/ MainParseArgs
    \/ MainRunAbsFullSurface
    \/ MainWriteAbsOutputsFull
    \/ MainRunAbs
    \/ MainSkipAbs
    \/ MainRunQcew
    \/ MainSkipQcew
    \/ MainWriteCombined
    \/ MainWriteSummary

SpecMain == InitMain /\ [][NextMain]_vars

\* ---- properties of main ----

\* what the sample words of --mode and --systems mean
FullSurfaceAsked == args.mode \in {<<"a", "b", "s", "_", "f", "u", "l", "l", "_", "s", "u", "r", "f", "a", "c", "e">>, <<"A", "B", "S", "_", "F", "u", "l", "l", "_", "S", "u", "r", "f", "a", "c", "e">>}

AbsNamed == \E i \in 1..Len(args.systems) : args.systems[i] \in {<<"a", "b", "s">>, <<"A", "B", "S">>}

QcewNamed == \E i \in 1..Len(args.systems) : args.systems[i] = <<"q", "c", "e", "w">>

\* the steps of a run of main that is not stopped by an exception
StandardSteps ==
    (IF AbsNamed THEN <<"run_abs">> ELSE <<>>)
    \o (IF QcewNamed THEN <<"run_qcew">> ELSE <<>>)
    \o (IF AbsNamed \/ QcewNamed THEN <<"write_combined">> ELSE <<>>)
    \o <<"write_summary">>

FullSurfaceSteps == <<"run_abs_full_surface", "write_abs_outputs_full">>

ExpectedSteps == IF FullSurfaceAsked THEN FullSurfaceSteps ELSE StandardSteps

IsPrefix(s, t) == Len(s) <= Len(t) /\ SubSeq(t, 1, Len(s)) = s

\* C19: in standard mode main runs exactly the systems named in --systems,
\* ABS before QCEW, then writes the combined CSV when at least one system ran
\* and writes the summary last; in mode abs_full_surface it runs only the ABS
\* full-surface reconciliation, writes the full-surface CSVs and returns, with
\* no QCEW run, no combined CSV and no summary. At every moment the steps
\* taken are the first steps of that sequence, and a run that returns has
\* taken all of them.
C19_RunnerSteps ==
    prog = "main" =>
        /\ IsPrefix(trace, ExpectedSteps)
        /\ pc = "done" => trace = ExpectedSteps

\* a standard run of one system only has returned: one run, the combined CSV
\* and the summary
C19_Witness ==
    /\ prog = "main"
    /\ pc = "done"
    /\ ~FullSurfaceAsked
    /\ AbsNamed
    /\ ~QcewNamed
    /\ trace = <<"run_abs", "write_combined", "write_summary">>

====
